---- MODULE Spec2Model ----
(***************************************************************************)
(* A model of the tyr HTTP request pipeline: the Router (path templates,   *)
(* first-match lookup), the MiddlewareChain (shared index cursor), and the *)
(* Server dispatcher with its error chain.                                 *)
(*                                                                         *)
(* A path is the sequence of its segments: "/users/42" is <<"users","42">>,*)
(* "/" is <<"">>, "/users/" is <<"users","">>.  A path template is a       *)
(* sequence of template segments: a literal, a ":name" placeholder or "*". *)
(***************************************************************************)
EXTENDS Integers, Sequences, FiniteSets, TLC

VARIABLES
  routes,      \* Router.routes: Map<path, Map<method, Route>> in insertion order
  patterns,    \* Router.patterns: Map<path, RoutePattern>
  found,       \* the last findRoute call: its arguments and its result
  registered,  \* how many routes were added to a Router used on its own (handler k is the k-th)
  globalMiddleware, \* Server.globalMiddleware: the handlers of the global chain
  running,     \* MiddlewareChain.execute: the middleware array being executed
  index,       \* execute's cursor, shared by every call of next (1-based here)
  stack,       \* the handler invocations awaiting or running, innermost last
  invocations, \* every handler invocation of this execute, in invocation order
  execState,   \* "idle", "running", "resolved" or "rejected"
  error,       \* the error execute was rejected with
  routeMiddleware, \* Server.routeMiddleware: Map<path as given, MiddlewareChain>
  serverRoutes,    \* Server.routes: Map<path, Map<method, Route>>
  errorHandlers,   \* Server.errorHandlers (0 is the bound defaultErrorHandler)
  pc,          \* where handleRequest is: "idle", "global", "routeMw", "handler",
               \* "errors" (in handleError's loop) or "done" (it has returned)
  req,         \* the ServerRequest of the request in flight
  res,         \* its ServerResponse, with the raw response's statusCode and end()s
  errIdx,      \* handleError: the position of its loop over errorHandlers
  tyrError,    \* handleError: the normalized error
  raised,      \* the errors thrown by middleware and handlers for this request
  handled,     \* the errors handleError was called with for this request
  tried,       \* the error handlers handleError invoked, with how each ended
  handlerRuns, \* the terminal handlers invoked for this request
  calls,       \* the calls made on a ServerResponse used on its own, with how each ended
  parsers,     \* ParserRegistry.parsers, in registration order
  stream,      \* the raw request of a ServerRequest: its Content-Type, the chunks of
               \* its body, and whether its 'data' and 'end' events are past
  cache,       \* ServerRequest.bodyParsed and ServerRequest.body
  gets,        \* the getBody calls made on the request, with how each ended
  lookup,      \* the last findParser call: its argument and its result
  multipart,   \* the MultipartParser instance: its options and its tempDir
  now,         \* Date.now()
  disk,        \* the file system under tmpdir(): directories and files
  decode,      \* MultipartParser.parse for the request in hand: its parts, the
               \* loop position, the fields and files so far, and how it ended
  kept,        \* the files the last decode that returned gave to its caller
  boundary,    \* MultipartParser.boundary, a field of the shared decoder
  parses,      \* the parse calls of two requests on the shared decoder: where
               \* each is, the content type of its request, what it split with
  scan,        \* the parseParts call in hand: its buffer, position and parts
  servers,     \* the Servers constructed so far: for each, the decoders its
               \* setup and the registrations after it have made available
  flow         \* the raw request as it flows: how many chunks were emitted, and
               \* the getBody calls whose decoders listen to it

routerVars == <<routes, patterns, found>>
chainVars == <<running, index, stack, invocations, execState, error>>
serverVars == <<globalMiddleware, routeMiddleware, serverRoutes, errorHandlers>>
requestVars == <<pc, req, res, errIdx, tyrError, raised, handled, tried, handlerRuns>>
responseVars == <<calls>>
bodyVars == <<parsers, stream, cache, gets, lookup, servers>>
multipartVars == <<multipart, now, disk, decode, kept>>
scanVars == <<boundary, parses, scan>>
vars == <<routes, patterns, found, registered, globalMiddleware,
          running, index, stack, invocations, execState, error,
          routeMiddleware, serverRoutes, errorHandlers,
          pc, req, res, errIdx, tyrError, raised, handled, tried, handlerRuns,
          calls, parsers, stream, cache, gets, lookup,
          multipart, now, disk, decode, kept,
          boundary, parses, scan, flow, servers>>

-----------------------------------------------------------------------------
(* Bounds *)

MaxRoutes == 2      \* Router.addRoute calls made in SpecRouter
MaxPathLen == 3     \* segments of a requested path
MaxChain == 3       \* handlers added to a chain in SpecChain
MaxNextCalls == 2   \* continuation calls one handler invocation makes
MaxServerRoutes == 1   \* routes the Server holds
MaxMiddleware == 1     \* middleware registered with the Server, all chains together
MaxErrorHandlers == 2  \* error handlers the application registers
MaxCalls == 3          \* calls made on a ServerResponse in SpecResponse
MaxParsers == 2        \* parsers the application registers in SpecBody
MaxGetBody == 2        \* getBody calls made on one request
MaxChunk == 2          \* bytes in one chunk of a request body
MaxParts == 2          \* parts of the multipart bodies, all requests together
MaxClock == 1          \* milliseconds Date.now() advances
MaxServers == 2        \* Servers constructed in one process
MaxScanParts == 1      \* parts of a body given to the part scanner

-----------------------------------------------------------------------------
(* Values *)

Lit(v) == [k |-> "lit", v |-> v]
Param(n) == [k |-> "param", v |-> n]
Star == [k |-> "star", v |-> "*"]

RouterMethods == {"GET", "POST"}

\* The path templates registered in SpecRouter.
RouterTemplates ==
  { <<Lit("a")>>,
    <<Param("x")>>,
    <<Star>>,
    <<Lit("a"), Lit("b")>>,
    <<Lit("a"), Param("x")>>,
    <<Param("x"), Param("y")>>,
    <<Param("x"), Param("x")>>,
    <<Lit("a"), Star>>,
    <<Star, Param("x")>> }

PathSegs == {"a", "b", ""}

RECURSIVE SeqsUpTo(_, _)
SeqsUpTo(S, n) ==
  IF n = 0 THEN { <<>> }
  ELSE LET shorter == SeqsUpTo(S, n - 1)
       IN  shorter \cup { Append(s, x) : s \in shorter, x \in S }

\* Every request path has at least one segment ("/" is one empty segment).
Paths == SeqsUpTo(PathSegs, MaxPathLen) \ { <<>> }

Range(s) == { s[i] : i \in DOMAIN s }

-----------------------------------------------------------------------------
(* Router *)

\* Router.createRoutePattern: "/:name" becomes the capture "/([^/]+)", "*"
\* becomes ".*", anything else stays literal; the names are collected in order.
createRoutePattern(path) ==
  [ pattern |->
      [ i \in 1..Len(path) |->
          IF path[i].k = "param" THEN [k |-> "cap", v |-> ""]
          ELSE IF path[i].k = "star" THEN [k |-> "any", v |-> ""]
          ELSE [k |-> "lit", v |-> path[i].v] ],
    paramNames |->
      LET ps == SelectSeq(path, LAMBDA s : s.k = "param")
      IN  [ i \in 1..Len(ps) |-> ps[i].v ] ]

NoMatch == [ok |-> FALSE, caps |-> <<>>]

\* A match in which a capture also takes an empty segment.
RECURSIVE regexMatch_emptyCapture(_, _)
regexMatch_emptyCapture(pat, segs) ==
  IF pat = <<>> THEN
     IF segs = <<>> THEN [ok |-> TRUE, caps |-> <<>>] ELSE NoMatch
  ELSE IF segs = <<>> THEN NoMatch
  ELSE
    CASE pat[1].k = "lit" ->
           IF segs[1] = pat[1].v THEN regexMatch_emptyCapture(Tail(pat), Tail(segs))
           ELSE NoMatch
      [] pat[1].k = "cap" ->
           LET r == regexMatch_emptyCapture(Tail(pat), Tail(segs))
           IN  IF r.ok THEN [ok |-> TRUE, caps |-> <<segs[1]>> \o r.caps] ELSE NoMatch
      [] pat[1].k = "any" ->
           LET fits == { n \in 1..Len(segs) :
                           regexMatch_emptyCapture(Tail(pat),
                                                   SubSeq(segs, n + 1, Len(segs))).ok }
           IN  IF fits = {} THEN NoMatch
               ELSE LET n == CHOOSE m \in fits : \A o \in fits : o <= m
                    IN  regexMatch_emptyCapture(Tail(pat), SubSeq(segs, n + 1, Len(segs)))

\* path.match(pattern) for the anchored pattern ^/s1/s2/...$ : a literal matches
\* the equal segment, a capture [^/]+ one non-empty segment, and the greedy .*
\* the longest run of one or more whole segments that lets the rest match.
RECURSIVE regexMatch(_, _)
regexMatch(pat, segs) ==
  IF pat = <<>> THEN
     IF segs = <<>> THEN [ok |-> TRUE, caps |-> <<>>] ELSE NoMatch
  ELSE IF segs = <<>> THEN NoMatch
  ELSE
    CASE pat[1].k = "lit" ->
           IF segs[1] = pat[1].v THEN regexMatch(Tail(pat), Tail(segs)) ELSE NoMatch
      [] pat[1].k = "cap" ->
           IF segs[1] # ""
           THEN LET r == regexMatch(Tail(pat), Tail(segs))
                IN  IF r.ok THEN [ok |-> TRUE, caps |-> <<segs[1]>> \o r.caps]
                    ELSE NoMatch
           ELSE NoMatch
      [] pat[1].k = "any" ->
           LET fits == { n \in 1..Len(segs) :
                           regexMatch(Tail(pat), SubSeq(segs, n + 1, Len(segs))).ok }
           IN  IF fits = {} THEN NoMatch
               ELSE LET n == CHOOSE m \in fits : \A o \in fits : o <= m
                    IN  regexMatch(Tail(pat), SubSeq(segs, n + 1, Len(segs)))

\* params[name] = match[index + 1] || '' for each name in order: a name that
\* occurs twice keeps the later capture.
bindParams(paramNames, caps) ==
  [ n \in Range(paramNames) |->
      LET last == CHOOSE i \in DOMAIN paramNames :
                    /\ paramNames[i] = n
                    /\ \A j \in DOMAIN paramNames : paramNames[j] = n => j <= i
      IN  IF last \in DOMAIN caps THEN caps[last] ELSE "" ]

NoRoute == [found |-> FALSE, path |-> <<>>, handler |-> 0, params |-> <<>>]

PathIndex(rs, path) ==
  IF \E i \in DOMAIN rs : rs[i].path = path
  THEN CHOOSE i \in DOMAIN rs : rs[i].path = path
  ELSE 0

\* Router.addRoute: compile the template, store the pattern, and set the route
\* under (path, method); a Map keeps the position of a key it already holds.
Router_addRoute(method, path, handler) ==
  LET rp == createRoutePattern(path)
      at == PathIndex(routes, path)
      route == [method |-> method, path |-> path, handler |-> handler]
      old == IF at = 0 THEN <<>> ELSE routes[at].methods
      routeMethods == [ m \in (DOMAIN old) \cup {method} |->
                          IF m = method THEN route ELSE old[m] ]
  IN  /\ patterns' = [ p \in (DOMAIN patterns) \cup {path} |->
                          IF p = path THEN rp ELSE patterns[p] ]
      /\ routes' = IF at = 0
                   THEN Append(routes, [path |-> path, methods |-> routeMethods])
                   ELSE [routes EXCEPT ![at].methods = routeMethods]

\* Router.findRoute: scan the routes in insertion order; skip a path whose
\* pattern does not match and one that does not list the method; return the
\* first that has both, with the captures bound to the parameter names.
RECURSIVE findRouteFrom(_, _, _)
findRouteFrom(i, method, path) ==
  IF i > Len(routes) THEN NoRoute
  ELSE LET routePath == routes[i].path
           routeMethods == routes[i].methods
       IN  IF routePath \notin DOMAIN patterns THEN findRouteFrom(i + 1, method, path)
           ELSE LET routePattern == patterns[routePath]
                    match == regexMatch(routePattern.pattern, path)
                IN  IF ~match.ok THEN findRouteFrom(i + 1, method, path)
                    ELSE IF method \notin DOMAIN routeMethods
                         THEN findRouteFrom(i + 1, method, path)
                    ELSE [ found |-> TRUE,
                           path |-> routeMethods[method].path,
                           handler |-> routeMethods[method].handler,
                           params |-> bindParams(routePattern.paramNames, match.caps) ]

\* A lookup in which the last-registered match wins.
RECURSIVE findRouteDownFrom(_, _, _)
findRouteDownFrom(i, method, path) ==
  IF i < 1 THEN NoRoute
  ELSE LET routePattern == patterns[routes[i].path]
           match == regexMatch(routePattern.pattern, path)
       IN  IF match.ok /\ method \in DOMAIN routes[i].methods
           THEN [ found |-> TRUE,
                  path |-> routes[i].methods[method].path,
                  handler |-> routes[i].methods[method].handler,
                  params |-> bindParams(routePattern.paramNames, match.caps) ]
           ELSE findRouteDownFrom(i - 1, method, path)

findRoute_lastWins(method, path) == findRouteDownFrom(Len(routes), method, path)

\* A lookup that gives up at the first matching path that lacks the method.
RECURSIVE findRouteStopFrom(_, _, _)
findRouteStopFrom(i, method, path) ==
  IF i > Len(routes) THEN NoRoute
  ELSE LET routePattern == patterns[routes[i].path]
           match == regexMatch(routePattern.pattern, path)
       IN  IF ~match.ok THEN findRouteStopFrom(i + 1, method, path)
           ELSE IF method \notin DOMAIN routes[i].methods THEN NoRoute
           ELSE [ found |-> TRUE,
                  path |-> routes[i].methods[method].path,
                  handler |-> routes[i].methods[method].handler,
                  params |-> bindParams(routePattern.paramNames, match.caps) ]

findRoute_noFallThrough(method, path) == findRouteStopFrom(1, method, path)

findRoute(method, path) == findRouteFrom(1, method, path)

-----------------------------------------------------------------------------
(* MiddlewareChain *)

\* Errors: the class, TyrError's statusCode (0 where the class has none) and
\* the message.
NoError == [type |-> "none", statusCode |-> 0, msg |-> ""]
PlainError == [type |-> "Error", statusCode |-> 0, msg |-> "boom"]
TyrError(code) == [type |-> "TyrError", statusCode |-> code, msg |-> "tyr"]

\* What a middleware or a handler of the application throws.
ThrownErrors == { PlainError, TyrError(400) }

\* MiddlewareChain.use
use(chain, handler) == Append(chain, handler)

Top(stk) == stk[Len(stk)]

\* A continuation that runs the handler after its caller's own position.
next_fromCaller(mw, idx, invs, stk) ==
  LET pos == IF stk = <<>> THEN 1 ELSE invs[Top(stk)].h + 1
  IN  IF pos \in DOMAIN mw
      THEN [ index |-> idx + 1,
             invocations |-> Append(invs, [h |-> pos, calls |-> 0, sent |-> FALSE, state |-> "running"]),
             stack |-> Append(stk, Len(invs) + 1) ]
      ELSE [ index |-> idx + 1, invocations |-> invs, stack |-> stk ]

\* The closure next of execute: take the handler under the cursor, advance the
\* cursor, and invoke the handler if there is one.
next(mw, idx, invs, stk) ==
  IF idx \in DOMAIN mw
  THEN [ index |-> idx + 1,
         invocations |-> Append(invs, [h |-> idx, calls |-> 0, sent |-> FALSE, state |-> "running"]),
         stack |-> Append(stk, Len(invs) + 1) ]
  ELSE [ index |-> idx + 1, invocations |-> invs, stack |-> stk ]

\* A chain that moves on by itself when a handler returns without having
\* called its continuation.
handlerReturned_autoAdvance(mw, idx, invs, stk) ==
  LET done == [invs EXCEPT ![Top(stk)].state = "returned"]
      rest == SubSeq(stk, 1, Len(stk) - 1)
  IN  IF invs[Top(stk)].calls = 0
      THEN next(mw, idx, done, rest)
      ELSE [ index |-> idx, invocations |-> done, stack |-> rest ]

\* await handler(req, res, next) completes: control is back in the caller.
handlerReturned(mw, idx, invs, stk) ==
  [ index |-> idx,
    invocations |-> [invs EXCEPT ![Top(stk)].state = "returned"],
    stack |-> SubSeq(stk, 1, Len(stk) - 1) ]

\* MiddlewareChain.execute(req, res): index = 0, then the first next().
execute(chain) ==
  LET r == next(chain, 1, <<>>, <<>>)
  IN  /\ running' = chain
      /\ index' = r.index
      /\ invocations' = r.invocations
      /\ stack' = r.stack
      /\ execState' = IF r.stack = <<>> THEN "resolved" ELSE "running"
      /\ error' = NoError

\* The running handler calls next() and awaits it.
MwCallNext ==
  /\ execState = "running"
  /\ invocations[Top(stack)].calls < MaxNextCalls
  /\ LET called == [invocations EXCEPT ![Top(stack)].calls = @ + 1]
         r == next(running, index, called, stack)
     IN  /\ index' = r.index
         /\ invocations' = r.invocations
         /\ stack' = r.stack
  /\ UNCHANGED <<running, execState, error>>

\* The running handler returns; when it was the outermost, execute resolves.
MwReturn ==
  /\ execState = "running"
  /\ LET r == handlerReturned(running, index, invocations, stack)
     IN  /\ index' = r.index
         /\ invocations' = r.invocations
         /\ stack' = r.stack
         /\ execState' = IF r.stack = <<>> THEN "resolved" ELSE "running"
  /\ UNCHANGED <<running, error>>

\* A chain that catches what its handlers throw and resolves.
throwInChain_caught(e) ==
  /\ invocations' = [ i \in DOMAIN invocations |->
                        IF \E j \in DOMAIN stack : stack[j] = i
                        THEN [invocations[i] EXCEPT !.state = "threw"]
                        ELSE invocations[i] ]
  /\ stack' = <<>>
  /\ execState' = "resolved"
  /\ error' = NoError

\* Nothing in the chain catches: an error thrown by the running handler rejects
\* every awaiting next() up to execute itself.
throwInChain(e) ==
  /\ invocations' = [ i \in DOMAIN invocations |->
                        IF \E j \in DOMAIN stack : stack[j] = i
                        THEN [invocations[i] EXCEPT !.state = "threw"]
                        ELSE invocations[i] ]
  /\ stack' = <<>>
  /\ execState' = "rejected"
  /\ error' = e

MwThrow ==
  \E e \in ThrownErrors :
    /\ execState = "running"
    /\ throwInChain(e)
    /\ UNCHANGED <<running, index>>

-----------------------------------------------------------------------------
(* ServerResponse and the errors of the dispatcher *)

AlreadySent == [type |-> "Error", statusCode |-> 0, msg |-> "Response has already been sent"]
NotFoundError == [type |-> "NotFoundError", statusCode |-> 404, msg |-> "No route found"]
NoResponseSent == [type |-> "TyrError", statusCode |-> 500, msg |-> "No response sent by handler"]

NoBody == [kind |-> "none", statusCode |-> 0]
DataBody == [kind |-> "data", statusCode |-> 0]
TextBody == [kind |-> "text", statusCode |-> 0]
ErrorBody(code) == [kind |-> "error", statusCode |-> code]

\* No header at all.
NoHeaders == [n \in {} |-> ""]

\* new ServerResponse(raw): nothing sent; Node's statusCode starts at 200.
\* The constructor sets the default Content-Type header in this.headers.
\* rawHeaders are the headers set on the raw response (raw.setHeader), and
\* written the headers the raw response had when it was ended.
createResponse ==
  [sent |-> FALSE, statusCode |-> 200, ended |-> 0, body |-> NoBody,
   headers |-> [n \in {"content-type"} |-> "application/json"],
   rawHeaders |-> NoHeaders, written |-> NoHeaders]

\* raw.end(data): the response goes out with the headers the raw response has.
end(r, data) == [r EXCEPT !.ended = @ + 1, !.body = data, !.written = r.rawHeaders]

\* ServerResponse.status: sets the raw status code, whatever sent is.
status(r, code) == [r EXCEPT !.statusCode = code]

\* headers[name.toLowerCase()] = value
setHeader(hs, name, value) ==
  [ n \in (DOMAIN hs) \cup {name} |-> IF n = name THEN value ELSE hs[n] ]

\* ServerResponse.header: checkSent, then the header is recorded.
header(r, name, value) ==
  IF r.sent
  THEN [res |-> r, threw |-> TRUE]
  ELSE [res |-> [r EXCEPT !.headers = setHeader(@, name, value)], threw |-> FALSE]

\* A json that does not look at sent.
json_unchecked(r, data) ==
  [res |-> [end([r EXCEPT !.headers = setHeader(@, "content-type", "application/json")],
                 data) EXCEPT !.sent = TRUE],
   threw |-> FALSE]

\* ServerResponse.json: checkSent throws when sent; otherwise the raw response
\* is ended with the data and sent becomes true.
json(r, data) ==
  IF r.sent
  THEN [res |-> r, threw |-> TRUE]
  ELSE [res |-> [end([r EXCEPT !.headers = setHeader(@, "content-type", "application/json")],
                      data) EXCEPT !.sent = TRUE],
        threw |-> FALSE]

\* ServerResponse.send: as json, with Content-Type text/plain.
send(r, data) ==
  IF r.sent
  THEN [res |-> r, threw |-> TRUE]
  ELSE [res |-> [end([r EXCEPT !.headers = setHeader(@, "content-type", "text/plain")],
                      data) EXCEPT !.sent = TRUE],
        threw |-> FALSE]

\* ServerResponse.redirect: checkSent, the Location header, the status code,
\* raw.end() without data, sent.
redirect(r, url, code) ==
  IF r.sent
  THEN [res |-> r, threw |-> TRUE]
  ELSE [res |-> [end(status([r EXCEPT !.headers = setHeader(@, "location", url)], code),
                      r.body) EXCEPT !.sent = TRUE],
        threw |-> FALSE]

\* ServerResponse.sendFile: checkSent and nothing else.
sendFile(r) == [res |-> r, threw |-> r.sent]

\* What a terminal handler or an error handler of the application does with
\* the response before it returns or throws.
Outcomes ==
  { [op |-> "return", err |-> NoError], [op |-> "send", err |-> NoError] }
  \cup { [op |-> o, err |-> e] : o \in {"throw", "sendThrow"}, e \in ThrownErrors }

\* What calling an undefined next throws: TypeError, next is not a function.
NextIsNotAFunction == [type |-> "TypeError", statusCode |-> 0, msg |-> "next is not a function"]

\* A function written as a middleware, (req, res, next), that is called as a
\* route handler, with (req, res): it can do what a handler does, and it can
\* call next.
MiddlewareOutcomes == Outcomes \cup { [op |-> "next", err |-> NoError] }

\* The handler's run: the response it leaves, and the error it threw if any.
runUser(r, o) ==
  CASE o.op = "return" -> [res |-> r, threw |-> FALSE, err |-> NoError]
    [] o.op = "next" -> [res |-> r, threw |-> TRUE, err |-> NextIsNotAFunction]
    [] o.op = "throw" -> [res |-> r, threw |-> TRUE, err |-> o.err]
    [] o.op = "send" ->
         LET j == json(r, DataBody)
         IN  [res |-> j.res, threw |-> j.threw,
              err |-> IF j.threw THEN AlreadySent ELSE NoError]
    [] o.op = "sendThrow" ->
         LET j == json(r, DataBody)
         IN  [res |-> j.res, threw |-> TRUE,
              err |-> IF j.threw THEN AlreadySent ELSE o.err]

-----------------------------------------------------------------------------
(* Body parsers: the registry, the decoders and ServerRequest.getBody *)

\* A string is a sequence of pieces here, so that includes() is containment
\* of one sequence in another; toLowerCase works piece by piece.
toLowerCase(str) ==
  [ i \in DOMAIN str |->
      CASE str[i] = "TEXT/" -> "text/"
        [] str[i] = "Application/JSON" -> "application/json"
        [] OTHER -> str[i] ]

includes(str, part) ==
  \E k \in 0..(Len(str) - Len(part)) :
    \A i \in 1..Len(part) : str[k + i] = part[i]

\* The Content-Type values of requests; <<>> is a missing or empty header.
ContentTypes ==
  { <<>>,
    <<"application/json">>,
    <<"Application/JSON">>,
    <<"application/x-www-form-urlencoded">>,
    <<"text/", "plain">>,
    <<"image/png">>,
    <<"multipart/form-data">>,
    <<"multipart/form-data", "; boundary=", "x">> }

\* The limit option: given or not, and its number of bytes.
NoLimit == [given |-> FALSE, n |-> 0]
Limit(n) == [given |-> TRUE, n |-> n]

\* BaseParser's constructor: limit is 1MB unless the options carry a limit key.
DefaultLimit == 1048576

BaseParser(kind, limitKey, limit, types, strict) ==
  [ kind |-> kind,
    limit |-> IF limitKey THEN limit ELSE Limit(DefaultLimit),
    types |-> types,
    strict |-> strict ]

\* The constructors: JsonParser, UrlEncodedParser, TextParser and
\* MultipartParser pass the limit key on only when the options have it;
\* RawParser always passes a limit key, undefined when the options have none.
\* strict ?? true
JsonParser(limit, strict) ==
  BaseParser("json", limit.given, limit, { <<"application/json">> }, strict # "false")

UrlEncodedParser(limit) ==
  BaseParser("urlencoded", limit.given, limit, { <<"application/x-www-form-urlencoded">> }, FALSE)

TextParser(limit) ==
  BaseParser("text", limit.given, limit, { <<"text/", "plain">> }, FALSE)

RawParser(limit, types) == BaseParser("raw", TRUE, limit, types, FALSE)

MultipartParser(limit) ==
  BaseParser("multipart", limit.given, limit, { <<"multipart/form-data">> }, FALSE)

\* BaseParser.validateContentType
validateContentType(parser, contentType) ==
  IF parser.types = {} THEN TRUE
  ELSE \E type \in parser.types : includes(toLowerCase(contentType), toLowerCase(type))

\* detect of each decoder.
detect(parser, contentType) ==
  CASE parser.kind = "json" -> includes(toLowerCase(contentType), <<"application/json">>)
    [] parser.kind = "urlencoded" ->
         includes(toLowerCase(contentType), <<"application/x-www-form-urlencoded">>)
    [] parser.kind = "text" -> includes(toLowerCase(contentType), <<"text/">>)
    [] parser.kind = "multipart" -> includes(toLowerCase(contentType), <<"multipart/form-data">>)
    [] parser.kind = "raw" ->
         IF parser.types # {} THEN validateContentType(parser, contentType) ELSE TRUE

\* A lookup that returns the last decoder that accepts.
findParser_lastAccepting(ps, contentType) ==
  IF contentType = <<>> THEN 0
  ELSE IF \E i \in DOMAIN ps : detect(ps[i], contentType)
  THEN CHOOSE i \in DOMAIN ps :
         /\ detect(ps[i], contentType)
         /\ \A j \in (i + 1)..Len(ps) : ~detect(ps[j], contentType)
  ELSE 0

\* ParserRegistry.findParser: nothing for an empty content type; otherwise
\* Array.find, the first parser whose detect accepts. The result is the
\* parser's position, 0 for undefined.
RECURSIVE findFrom(_, _, _)
findFrom(i, ps, contentType) ==
  IF i > Len(ps) THEN 0
  ELSE IF detect(ps[i], contentType) THEN i
  ELSE findFrom(i + 1, ps, contentType)

findParser(ps, contentType) ==
  IF contentType = <<>> THEN 0 ELSE findFrom(1, ps, contentType)

\* ParserRegistry.registerParser
registerParser(ps, parser) == Append(ps, parser)

\* The request bodies: sequences of bytes, which arrive in chunks.
Bodies == { <<>>, <<"1">>, <<"{">>, <<"{", "}">>, <<"{", "}", "1">> }

RECURSIVE chunksOf(_, _)
chunksOf(body, c) ==
  IF Len(body) <= c THEN (IF body = <<>> THEN <<>> ELSE <<body>>)
  ELSE <<SubSeq(body, 1, c)>> \o chunksOf(SubSeq(body, c + 1, Len(body)), c)

RECURSIVE concat(_)
concat(chunks) == IF chunks = <<>> THEN <<>> ELSE Head(chunks) \o concat(Tail(chunks))

BadRequestError(msg) == [type |-> "BadRequestError", statusCode |-> 400, msg |-> msg]

\* this.options.limit && ...: an undefined limit and a limit of 0 are falsy.
limitIsTruthy(parser) == parser.limit.given /\ parser.limit.n # 0

\* BaseParser.getRawBody and RawParser.getRawBody (the same code): the 'data'
\* events add to size, reject once size exceeds a truthy limit, and otherwise
\* keep the chunk; 'end' resolves with the chunks kept, which does nothing
\* after a reject.
RECURSIVE onData(_, _, _, _, _)
onData(parser, arriving, size, chunks, rejected) ==
  IF arriving = <<>> THEN [ok |-> ~rejected, raw |-> concat(chunks)]
  ELSE LET size2 == size + Len(Head(arriving))
       IN  IF limitIsTruthy(parser) /\ size2 > parser.limit.n
           THEN onData(parser, Tail(arriving), size2, chunks, TRUE)
           ELSE onData(parser, Tail(arriving), size2, Append(chunks, Head(arriving)), rejected)

getRawBody(parser, arriving) == onData(parser, arriving, 0, <<>>, FALSE)

\* JSON.parse on the texts that these bytes can spell: the empty object and
\* the numbers are JSON, everything else is a SyntaxError.
JSON_parse(text) ==
  IF text = <<"{", "}">> THEN [ok |-> TRUE, value |-> [kind |-> "object", data |-> <<>>]]
  ELSE IF text # <<>> /\ \A i \in DOMAIN text : text[i] = "1"
  THEN [ok |-> TRUE, value |-> [kind |-> "number", data |-> text]]
  ELSE [ok |-> FALSE, value |-> [kind |-> "none", data |-> <<>>]]

NoValue == [kind |-> "none", data |-> <<>>]
Parsed(value) == [ok |-> TRUE, value |-> value, err |-> NoError, read |-> TRUE]
Failed(err, read) == [ok |-> FALSE, value |-> NoValue, err |-> err, read |-> read]
TooLarge == Failed(BadRequestError("Request body too large"), TRUE)

\* A JSON decoder that takes an empty body for an empty structure in either mode.
JsonParser_parse_lenient(parser, arriving) ==
  LET raw == getRawBody(parser, arriving)
  IN  IF ~raw.ok THEN TooLarge
      ELSE IF Len(raw.raw) = 0 THEN Parsed([kind |-> "object", data |-> <<>>])
      ELSE LET parsed == JSON_parse(raw.raw)
           IN  IF parsed.ok THEN Parsed(parsed.value)
               ELSE Failed(BadRequestError("Invalid JSON format"), TRUE)

\* JsonParser.parse
JsonParser_parse(parser, arriving) ==
  LET raw == getRawBody(parser, arriving)
  IN  IF ~raw.ok THEN TooLarge
      ELSE IF parser.strict /\ Len(raw.raw) = 0
      THEN Failed(BadRequestError("Empty body not allowed in strict mode"), TRUE)
      ELSE IF Len(raw.raw) = 0 THEN Parsed([kind |-> "object", data |-> <<>>])
      ELSE LET parsed == JSON_parse(raw.raw)
           IN  IF parsed.ok THEN Parsed(parsed.value)
               ELSE Failed(BadRequestError("Invalid JSON format"), TRUE)

\* UrlEncodedParser.parse: {} for an empty body, otherwise the parsed query.
UrlEncodedParser_parse(parser, arriving) ==
  LET raw == getRawBody(parser, arriving)
  IN  IF ~raw.ok THEN TooLarge
      ELSE IF Len(raw.raw) = 0 THEN Parsed([kind |-> "object", data |-> <<>>])
      ELSE Parsed([kind |-> "form", data |-> raw.raw])

\* TextParser.parse: the body as a string.
TextParser_parse(parser, arriving) ==
  LET raw == getRawBody(parser, arriving)
  IN  IF ~raw.ok THEN TooLarge ELSE Parsed([kind |-> "string", data |-> raw.raw])

\* RawParser.parse: the body as a Buffer.
RawParser_parse(parser, arriving) ==
  LET raw == getRawBody(parser, arriving)
  IN  IF ~raw.ok THEN TooLarge ELSE Parsed([kind |-> "buffer", data |-> raw.raw])

\* MultipartParser.extractBoundary: the content type must carry boundary=...
hasBoundary(contentType) ==
  \E i \in 1..(Len(contentType) - 1) : toLowerCase(contentType)[i] = "; boundary="

\* MultipartParser.parse: the boundary is extracted before the body is read;
\* the bodies here hold no boundary line, so parseParts finds no part and the
\* result is {fields: [], files: []}.
MultipartParser_parse(parser, contentType, arriving) ==
  IF ~hasBoundary(contentType)
  THEN Failed(BadRequestError("No multipart boundary found"), FALSE)
  ELSE LET raw == getRawBody(parser, arriving)
       IN  IF ~raw.ok THEN TooLarge ELSE Parsed([kind |-> "multipart", data |-> <<>>])

\* parser.parse(req)
parse(parser, contentType, arriving) ==
  CASE parser.kind = "json" -> JsonParser_parse(parser, arriving)
    [] parser.kind = "urlencoded" -> UrlEncodedParser_parse(parser, arriving)
    [] parser.kind = "text" -> TextParser_parse(parser, arriving)
    [] parser.kind = "raw" -> RawParser_parse(parser, arriving)
    [] parser.kind = "multipart" -> MultipartParser_parse(parser, contentType, arriving)

-----------------------------------------------------------------------------
(* The multipart decoder: MultipartParser with its temporary directory *)

\* An option of the constructor: undefined (NoLimit) or a number; o ?? d.
orElse(o, d) == IF o.given THEN o.n ELSE d

\* Date.now() hashed: createHash('sha256').update(Date.now().toString())
\* .digest('hex'), also after .slice(0, 16). Equal times give equal digests;
\* different times are taken to give different ones.
sha256(t) == [sha256 |-> t]

\* path.join(dir, name)
join(dir, name) == [dir |-> dir, name |-> name]

\* new MultipartParser(options) at time t: the limits default with ??, and
\* tempDir is computed here, once for the instance.
newMultipartParser(options, t) ==
  [ base |-> MultipartParser(options.limit),
    multipartOptions |->
      [ maxFields |-> orElse(options.maxFields, 1000),
        maxFieldNameSize |-> orElse(options.maxFieldNameSize, 100),
        maxFieldSize |-> orElse(options.maxFieldSize, 1024 * 1024),
        maxFileSize |-> orElse(options.maxFileSize, 10 * 1024 * 1024),
        preserveExtension |-> options.preserveExtension # "false" ],
    tempDir |-> join("tmpdir", <<"tyr-upload-", sha256(t)>>) ]

\* BaseParser.generateId(prefix)
generateId(prefix, t) == <<prefix, sha256(t)>>

\* The file system under tmpdir(): the directories that exist and the files
\* in them. mkdir(dir, {recursive: true}); a write stream on a path, which
\* replaces a file that has this path; rm(dir, {recursive: true, force: true}).
mkdir(fs, dir) == [fs EXCEPT !.dirs = @ \cup {dir}]

writeFile(fs, filepath, data) ==
  [fs EXCEPT !.files = { f \in @ : f.path # filepath }
                         \cup { [path |-> filepath, data |-> data] }]

rm(fs, dir) ==
  [ dirs |-> fs.dirs \ {dir}, files |-> { f \in fs.files : f.path.dir # dir } ]

\* A content-disposition value is form-data followed by attributes key="value",
\* kept in the order they were sent; keys and values are sequences of pieces.
\* A Part of parseParts has the headers of the part and its data.
Attr(key, value) == [key |-> key, value |-> value]
Part(given, attrs, data) ==
  [headers |-> [contentDisposition |-> [given |-> given, attrs |-> attrs]], data |-> data]

\* str.match(/KEY="([^"]+)"/): the first attribute that the text KEY="v" with
\* a non-empty v occurs in, 0 for no match. The text name="v" occurs in a
\* name attribute and in a filename attribute alike.
RECURSIVE matchFrom(_, _, _)
matchFrom(i, attrs, key) ==
  IF i > Len(attrs) THEN 0
  ELSE LET k == attrs[i].key
       IN  IF /\ Len(k) >= Len(key)
              /\ SubSeq(k, Len(k) - Len(key) + 1, Len(k)) = key
              /\ attrs[i].value # <<>>
           THEN i
           ELSE matchFrom(i + 1, attrs, key)

match(attrs, key) == matchFrom(1, attrs, key)

\* originalname.slice(originalname.lastIndexOf('.')): from the last dot on;
\* without a dot lastIndexOf is -1 and slice(-1) is the last character.
extension(originalname) ==
  IF \E i \in DOMAIN originalname : originalname[i] = "."
  THEN LET at == CHOOSE i \in DOMAIN originalname :
                   /\ originalname[i] = "."
                   /\ \A j \in (i + 1)..Len(originalname) : originalname[j] # "."
       IN  SubSeq(originalname, at, Len(originalname))
  ELSE SubSeq(originalname, Len(originalname), Len(originalname))

\* MultipartParser.processFile at time t; the write stream fails when the
\* directory is gone, and may fail otherwise (writeOk). The record's stream
\* is Readable.from(part.data), a stream over the buffer in memory.
processFile(mp, fieldname, originalname, part, t, fs, writeOk) ==
  IF Len(part.data) > mp.multipartOptions.maxFileSize
  THEN [ok |-> FALSE, err |-> BadRequestError("File too large"), fs |-> fs]
  ELSE LET ext == IF mp.multipartOptions.preserveExtension
                  THEN extension(originalname) ELSE <<>>
           filename == generateId("file-", t) \o ext
           filepath == join(mp.tempDir, filename)
       IN  IF mp.tempDir \notin fs.dirs \/ ~writeOk
           THEN [ok |-> FALSE, err |-> PlainError, fs |-> fs]
           ELSE [ok |-> TRUE, err |-> NoError,
                 fs |-> writeFile(fs, filepath, part.data),
                 filepath |-> filepath,
                 file |-> [fieldname |-> fieldname, originalname |-> originalname,
                           encoding |-> "7bit", mimetype |-> "application/octet-stream",
                           size |-> Len(part.data),
                           stream |-> [from |-> "buffer", data |-> part.data]]]

\* One turn of the loop of MultipartParser.processParts, on part number
\* d.next. staged lists the paths processFile wrote for this decode.
processPart(mp, d, t, fs, writeOk) ==
  LET part == d.parts[d.next]
      contentDisposition == part.headers.contentDisposition
      nameMatch == match(contentDisposition.attrs, <<"name">>)
      filenameMatch == match(contentDisposition.attrs, <<"file", "name">>)
      skipped == [ok |-> TRUE, err |-> NoError, fs |-> fs,
                  d |-> [d EXCEPT !.next = @ + 1]]
      thrown(msg) == [ok |-> FALSE, err |-> BadRequestError(msg), fs |-> fs, d |-> d]
  IN  IF d.fieldCount >= mp.multipartOptions.maxFields THEN thrown("Too many fields")
      ELSE IF ~contentDisposition.given THEN skipped
      ELSE IF nameMatch = 0 THEN skipped
      ELSE LET fieldname == contentDisposition.attrs[nameMatch].value
           IN  IF Len(fieldname) > mp.multipartOptions.maxFieldNameSize
               THEN thrown("Field name too long")
               ELSE IF filenameMatch # 0
               THEN LET originalname == contentDisposition.attrs[filenameMatch].value
                        w == processFile(mp, fieldname, originalname, part, t, fs, writeOk)
                    IN  IF ~w.ok THEN [ok |-> FALSE, err |-> w.err, fs |-> fs, d |-> d]
                        ELSE [ok |-> TRUE, err |-> NoError, fs |-> w.fs,
                              d |-> [d EXCEPT !.next = @ + 1,
                                              !.files = Append(@, w.file),
                                              !.staged = Append(@, w.filepath),
                                              !.fieldCount = @ + 1]]
               ELSE IF Len(part.data) > mp.multipartOptions.maxFieldSize
               THEN thrown("Field value too large")
               ELSE [ok |-> TRUE, err |-> NoError, fs |-> fs,
                     d |-> [d EXCEPT !.next = @ + 1,
                                     !.fields = Append(@, [fieldname |-> fieldname,
                                                           value |-> part.data]),
                                     !.fieldCount = @ + 1]]

\* A multipart body on the wire: its parts, each following a boundary line,
\* and whether a boundary line follows the last one. A part arrives as one
\* chunk, its boundary line and headers counted as one byte.
wire(body) == [ i \in DOMAIN body.parts |-> <<"--x">> \o body.parts[i].data ]

\* MultipartParser.parseParts: a part is complete at the boundary that
\* follows it; data that no boundary follows is not a part.
parseParts(body) ==
  IF body.closed \/ body.parts = <<>> THEN body.parts
  ELSE SubSeq(body.parts, 1, Len(body.parts) - 1)

RmError == [type |-> "Error", statusCode |-> 0, msg |-> "rm failed"]

\* A cleanup that lets the error of rm out.
cleanup_throwing(mp, fs, rmOk) ==
  IF rmOk THEN [fs |-> rm(fs, mp.tempDir), threw |-> FALSE, err |-> NoError]
  ELSE [fs |-> fs, threw |-> TRUE, err |-> RmError]

\* MultipartParser.cleanup: rm of the temporary directory; an error of rm is
\* caught and logged, not thrown.
cleanup(mp, fs, rmOk) ==
  IF rmOk THEN [fs |-> rm(fs, mp.tempDir), threw |-> FALSE, err |-> NoError]
  ELSE [fs |-> fs, threw |-> FALSE, err |-> NoError]

-----------------------------------------------------------------------------
(* Server: registration *)

\* A path as the application writes it: with or without its leading slash.
ServerPaths ==
  { [slash |-> TRUE, segs |-> <<Lit("a")>>],
    [slash |-> FALSE, segs |-> <<Lit("a")>>] }

\* The paths given to server.get and server.useRoute: those, and a template
\* with a placeholder.
ParamPaths == ServerPaths \cup { [slash |-> TRUE, segs |-> <<Param("x")>>] }

\* Server.normalizePath: the path with its leading slash, which is how the
\* Router's templates and the request paths are written here.
normalizePath(p) == p.segs

\* The key under which a normalized path is looked up in a Map keyed by the
\* paths as given.
AsGiven(segs) == [slash |-> TRUE, segs |-> segs]

RequestMethods == {"GET", "POST", "PUT", "DELETE", "PATCH"}
RequestPaths == { <<"a">>, <<"b">> }

MapSet(m, k, v) == [ x \in (DOMAIN m) \cup {k} |-> IF x = k THEN v ELSE m[x] ]

\* Server.addRoute, which put, delete and patch use: the route goes into
\* Server.routes.
Server_addRoute(method, path, handler) ==
  LET normalizedPath == normalizePath(path)
      routeMethods == IF normalizedPath \in DOMAIN serverRoutes
                      THEN serverRoutes[normalizedPath] ELSE <<>>
  IN  serverRoutes' =
        MapSet(serverRoutes, normalizedPath,
               MapSet(routeMethods, method,
                      [method |-> method, path |-> normalizedPath, handler |-> handler]))

serverIdle == pc = "idle" /\ execState = "idle"

\* The handler the application passes to server.get, .post, .put, .delete and
\* .patch: one per registration method.
handlerOf(method) ==
  CASE method = "GET" -> 1 [] method = "POST" -> 2 [] method = "PUT" -> 3
    [] method = "DELETE" -> 4 [] method = "PATCH" -> 5

\* The middleware of server.get(path, authenticate, handler): a function
\* apart from the five handlers of handlerOf.
authenticate == 6

\* get(path, handler) called with the arguments args: the parameters take the
\* first two, a third argument is not looked at.
getParameters(args) == [path |-> args[1], handler |-> args[2]]

\* How many routes the Router and Server.routes hold.
storedRoutes ==
  Cardinality(UNION { { <<i, m>> : m \in DOMAIN routes[i].methods } : i \in DOMAIN routes })
  + Cardinality(UNION { { <<k, m>> : m \in DOMAIN serverRoutes[k] } : k \in DOMAIN serverRoutes })

\* How many middleware functions the application has registered.
storedMiddleware ==
  Len(globalMiddleware)
  + Cardinality(UNION { { <<k, i>> : i \in DOMAIN routeMiddleware[k] } : k \in DOMAIN routeMiddleware })

\* server.get / server.post: the route goes into the Router.
ServerGet ==
  \E path \in ParamPaths :
    /\ serverIdle /\ storedRoutes < MaxServerRoutes
    /\ Router_addRoute("GET", normalizePath(path), handlerOf("GET"))
    /\ UNCHANGED <<flow, scanVars, multipartVars, bodyVars, responseVars, found, registered, serverVars, chainVars, requestVars>>

\* server.get(path, authenticate, handler), as the README writes it.
ServerGetWithMiddleware ==
  \E path \in ServerPaths :
    LET p == getParameters(<<path, authenticate, handlerOf("GET")>>)
    IN  /\ serverIdle /\ storedRoutes < MaxServerRoutes
        /\ Router_addRoute("GET", normalizePath(p.path), p.handler)
        /\ UNCHANGED <<flow, scanVars, multipartVars, bodyVars, responseVars, found, registered, serverVars,
                       chainVars, requestVars>>

ServerPost ==
  \E path \in ServerPaths :
    /\ serverIdle /\ storedRoutes < MaxServerRoutes
    /\ Router_addRoute("POST", normalizePath(path), handlerOf("POST"))
    /\ UNCHANGED <<flow, scanVars, multipartVars, bodyVars, responseVars, found, registered, serverVars, chainVars, requestVars>>

ServerPut ==
  \E path \in ServerPaths :
    /\ serverIdle /\ storedRoutes < MaxServerRoutes
    /\ Server_addRoute("PUT", path, handlerOf("PUT"))
    /\ UNCHANGED <<flow, scanVars, multipartVars, bodyVars, responseVars, routerVars, registered, chainVars, requestVars,
                   globalMiddleware, routeMiddleware, errorHandlers>>

ServerDelete ==
  \E path \in ServerPaths :
    /\ serverIdle /\ storedRoutes < MaxServerRoutes
    /\ Server_addRoute("DELETE", path, handlerOf("DELETE"))
    /\ UNCHANGED <<flow, scanVars, multipartVars, bodyVars, responseVars, routerVars, registered, chainVars, requestVars,
                   globalMiddleware, routeMiddleware, errorHandlers>>

ServerPatch ==
  \E path \in ServerPaths :
    /\ serverIdle /\ storedRoutes < MaxServerRoutes
    /\ Server_addRoute("PATCH", path, handlerOf("PATCH"))
    /\ UNCHANGED <<flow, scanVars, multipartVars, bodyVars, responseVars, routerVars, registered, chainVars, requestVars,
                   globalMiddleware, routeMiddleware, errorHandlers>>

\* server.use
ServerUse ==
  /\ serverIdle /\ storedMiddleware < MaxMiddleware
  /\ globalMiddleware' = use(globalMiddleware, Len(globalMiddleware) + 1)
  /\ UNCHANGED <<flow, scanVars, multipartVars, bodyVars, responseVars, routerVars, registered, chainVars, requestVars,
                 routeMiddleware, serverRoutes, errorHandlers>>

\* server.useRoute: the chain is stored under the path as given.
ServerUseRoute ==
  \E path \in ParamPaths :
    LET chain == IF path \in DOMAIN routeMiddleware THEN routeMiddleware[path] ELSE <<>>
    IN  /\ serverIdle /\ storedMiddleware < MaxMiddleware
        /\ routeMiddleware' = MapSet(routeMiddleware, path, use(chain, Len(chain) + 1))
        /\ UNCHANGED <<flow, scanVars, multipartVars, bodyVars, responseVars, routerVars, registered, chainVars, requestVars,
                       globalMiddleware, serverRoutes, errorHandlers>>

\* server.onError: handler k is the k-th the application registers.
ServerOnError ==
  /\ serverIdle /\ Len(errorHandlers) < 1 + MaxErrorHandlers
  /\ errorHandlers' = Append(errorHandlers, Len(errorHandlers))
  /\ UNCHANGED <<flow, scanVars, multipartVars, bodyVars, responseVars, routerVars, registered, chainVars, requestVars,
                 globalMiddleware, routeMiddleware, serverRoutes>>

NoCall == [called |-> FALSE, method |-> "", path |-> <<>>, result |-> NoRoute]

InitRouter ==
  /\ routes = <<>>
  /\ patterns = <<>>
  /\ found = NoCall
  /\ registered = 0

InitChain ==
  /\ running = <<>>
  /\ index = 1
  /\ stack = <<>>
  /\ invocations = <<>>
  /\ execState = "idle"
  /\ error = NoError

\* new Server(): the constructor registers defaultErrorHandler with onError.
InitServer ==
  /\ globalMiddleware = <<>>
  /\ routeMiddleware = <<>>
  /\ serverRoutes = <<>>
  /\ errorHandlers = <<0>>

NoRequest == [method |-> "", path |-> <<>>, params |-> <<>>]

InitRequest ==
  /\ pc = "idle"
  /\ req = NoRequest
  /\ res = createResponse
  /\ errIdx = 0
  /\ tyrError = NoError
  /\ raised = <<>>
  /\ handled = <<>>
  /\ tried = <<>>
  /\ handlerRuns = <<>>

InitResponse == calls = <<>>

NoStream == [open |-> FALSE, contentType |-> <<>>, arriving |-> <<>>, consumed |-> FALSE]
NoCache == [bodyParsed |-> FALSE, body |-> NoValue]
NoLookup == [called |-> FALSE, contentType |-> <<>>, result |-> 0]

InitBody ==
  /\ parsers = <<>>
  /\ stream = NoStream
  /\ cache = NoCache
  /\ gets = <<>>
  /\ lookup = NoLookup
  /\ servers = <<>>

NoMultipart == [constructed |-> FALSE]
NoDecode ==
  [ pc |-> "idle", parts |-> <<>>, next |-> 1, fields |-> <<>>, files |-> <<>>, staged |-> <<>>,
    fieldCount |-> 0, err |-> NoError, cleaned |-> "no", seen |-> 0 ]

InitMultipart ==
  /\ multipart = NoMultipart
  /\ now = 0
  /\ disk = [dirs |-> {}, files |-> {}]
  /\ decode = NoDecode
  /\ kept = <<>>

NoParse == [pc |-> "idle", contentType |-> <<>>, used |-> <<>>, err |-> NoError]
NoScan ==
  [ pc |-> "idle", who |-> 0, raw |-> <<>>, boundary |-> <<>>, position |-> 0,
    currentPart |-> <<>>, parts |-> <<>>, top |-> 0, iterations |-> 0 ]

\* private boundary?: string, undefined until a parse sets it.
InitScan ==
  /\ boundary = <<>>
  /\ parses = [r \in {1, 2} |-> NoParse]
  /\ scan = NoScan

\* Nothing is emitted before a listener is attached.
InitFlow == flow = [emitted |-> 0, calls |-> <<>>]

Init ==
  /\ InitRouter /\ InitChain /\ InitServer /\ InitRequest /\ InitResponse /\ InitBody
  /\ InitMultipart /\ InitScan /\ InitFlow

-----------------------------------------------------------------------------
(* A MiddlewareChain on its own: handlers are added, then it is executed. *)

ChainUse ==
  /\ serverIdle
  /\ Len(globalMiddleware) < MaxChain
  /\ globalMiddleware' = use(globalMiddleware, Len(globalMiddleware) + 1)
  /\ UNCHANGED <<flow, scanVars, multipartVars, bodyVars, responseVars, routerVars, registered, chainVars,
                 routeMiddleware, serverRoutes, errorHandlers, requestVars>>

ChainExecute ==
  /\ serverIdle
  /\ execute(globalMiddleware)
  /\ UNCHANGED <<flow, scanVars, multipartVars, bodyVars, responseVars, routerVars, registered, serverVars, requestVars>>

ChainStep ==
  /\ MwCallNext \/ MwReturn \/ MwThrow
  /\ UNCHANGED <<flow, scanVars, multipartVars, bodyVars, responseVars, routerVars, registered, globalMiddleware,
                 routeMiddleware, serverRoutes, errorHandlers, requestVars>>

\* The caller of execute has seen it settle.
ChainSettled ==
  /\ execState \in {"resolved", "rejected"}
  /\ execState' = "idle"
  /\ invocations' = <<>>
  /\ error' = NoError
  /\ UNCHANGED <<flow, scanVars, multipartVars, bodyVars, responseVars, routerVars, registered, serverVars, requestVars,
                 running, index, stack>>

NextChain == ChainUse \/ ChainExecute \/ ChainStep \/ ChainSettled

SpecChain == Init /\ [][NextChain]_vars

-----------------------------------------------------------------------------
(* A ServerResponse on its own: the application calls its methods. *)

StatusCodes == {201, 500}
RedirectCodes == {302}

\* One call on the response: what it left and whether it threw.
called(op, r) ==
  /\ pc = "idle" /\ execState = "idle"
  /\ Len(calls) < MaxCalls
  /\ res' = r.res
  /\ calls' = Append(calls, [op |-> op, threw |-> r.threw, before |-> res, after |-> r.res])
  /\ UNCHANGED <<flow, scanVars, multipartVars, bodyVars, routerVars, registered, chainVars, serverVars,
                 pc, req, errIdx, tyrError, raised, handled, tried, handlerRuns>>

ResStatus == \E code \in StatusCodes : called("status", [res |-> status(res, code), threw |-> FALSE])

ResHeader == called("header", header(res, "x-a", "1"))

ResJson == called("json", json(res, DataBody))

ResSend == called("send", send(res, TextBody))

ResRedirect == \E code \in RedirectCodes : called("redirect", redirect(res, "/a", code))

ResSendFile == called("sendFile", sendFile(res))

NextResponse == ResStatus \/ ResHeader \/ ResJson \/ ResSend \/ ResRedirect \/ ResSendFile

SpecResponse == Init /\ [][NextResponse]_vars

-----------------------------------------------------------------------------
(* The body parsers on their own: parsers are registered, a request        *)
(* arrives, and its handlers call getBody.                                 *)

\* The parsers an application constructs and registers.
ParserConfigs ==
  { JsonParser(NoLimit, "absent"), JsonParser(NoLimit, "false"),
    JsonParser(Limit(1), "true"), JsonParser(Limit(0), "false"),
    UrlEncodedParser(Limit(1)), TextParser(Limit(1)), MultipartParser(Limit(1)),
    RawParser(Limit(1), {}), RawParser(NoLimit, { <<"text/", "plain">> }) }

\* Server.configureBodyParsers with config === true: the default options.
DefaultParsers ==
  << JsonParser(Limit(DefaultLimit), "absent"),
     UrlEncodedParser(Limit(DefaultLimit)),
     RawParser(Limit(DefaultLimit), {}),
     TextParser(Limit(DefaultLimit)),
     MultipartParser(NoLimit) >>

bodyIdle == ~stream.open /\ ~lookup.called

othersUnchanged ==
  UNCHANGED <<routerVars, registered, chainVars, serverVars, requestVars, responseVars,
              multipartVars, scanVars, flow>>

\* registry.registerParser(parser)
BodyRegister ==
  \E parser \in ParserConfigs :
    /\ bodyIdle /\ Len(parsers) < MaxParsers
    /\ parsers' = registerParser(parsers, parser)
    /\ UNCHANGED <<stream, cache, gets, lookup, servers>>
    /\ othersUnchanged

ParserKinds == <<"json", "urlencoded", "raw", "text", "multipart">>

\* The bodyParser configurations: a boolean, or an object in which one decoder
\* is named, with `true` or with an options object that has no limit.
ServerConfigs ==
  { [typeof |-> "boolean", enabled |-> b] : b \in BOOLEAN } \cup
  { [ typeof |-> "object",
      options |-> [ k \in {"json", "urlencoded", "raw", "text", "multipart"} |->
                      IF k = kind THEN how ELSE "absent" ] ]
    : kind \in {"json", "urlencoded", "raw", "text", "multipart"}, how \in {"true", "object"} }

\* Server.normalizeParserOptions: `true` becomes {}; an options object is
\* copied with a limit key set from its limit (undefined when it has none);
\* for multipart the keys set are maxFileSize and maxFieldSize.
normalizeParserOptions(config) ==
  [ k \in DOMAIN config |->
      IF config[k] = "absent" THEN [named |-> FALSE, limitKey |-> FALSE, limit |-> NoLimit]
      ELSE IF config[k] = "true" \/ k = "multipart"
      THEN [named |-> TRUE, limitKey |-> FALSE, limit |-> NoLimit]
      ELSE [named |-> TRUE, limitKey |-> TRUE, limit |-> NoLimit] ]

\* new JsonParser(o), ... : RawParser always passes a limit key to BaseParser.
construct(kind, o) ==
  CASE kind = "json" -> BaseParser("json", o.limitKey, o.limit, { <<"application/json">> }, TRUE)
    [] kind = "urlencoded" ->
         BaseParser("urlencoded", o.limitKey, o.limit,
                    { <<"application/x-www-form-urlencoded">> }, FALSE)
    [] kind = "raw" -> BaseParser("raw", TRUE, o.limit, {}, FALSE)
    [] kind = "text" -> BaseParser("text", o.limitKey, o.limit, { <<"text/", "plain">> }, FALSE)
    [] kind = "multipart" ->
         BaseParser("multipart", o.limitKey, o.limit, { <<"multipart/form-data">> }, FALSE)

\* Server.configureBodyParsers(config): the registry is cleared; false
\* registers nothing, true the five parsers with the default options, an
\* object the five parsers with {...defaultOptions, ...normalized}.
configureBodyParsers(config) ==
  IF config.typeof = "boolean" THEN IF config.enabled THEN DefaultParsers ELSE <<>>
  ELSE LET normalized == normalizeParserOptions(config.options)
           defaultOptions ==
             [ k \in DOMAIN config.options |->
                 IF k = "multipart" THEN [named |-> TRUE, limitKey |-> FALSE, limit |-> NoLimit]
                 ELSE [named |-> TRUE, limitKey |-> TRUE, limit |-> Limit(DefaultLimit)] ]
       IN  [ i \in DOMAIN ParserKinds |->
               LET k == ParserKinds[i]
               IN  construct(k, IF normalized[k].named THEN normalized[k]
                                ELSE defaultOptions[k]) ]

\* new Server({bodyParser: config}): the constructor configures the registry
\* of the process.
BodyConfigure ==
  \E config \in ServerConfigs :
    /\ bodyIdle
    /\ parsers' = configureBodyParsers(config)
    /\ UNCHANGED <<stream, cache, gets, lookup, servers>>
    /\ othersUnchanged

\* registry.findParser(contentType): the caller holds the result.
BodyFindParser ==
  \E contentType \in ContentTypes :
    /\ bodyIdle
    /\ lookup' = [called |-> TRUE, contentType |-> contentType,
                  result |-> findParser(parsers, contentType)]
    /\ UNCHANGED <<parsers, stream, cache, gets, servers>>
    /\ othersUnchanged

BodyFindParserDone ==
  /\ lookup.called
  /\ lookup' = NoLookup
  /\ UNCHANGED <<parsers, stream, cache, gets, servers>>
  /\ othersUnchanged

\* A request arrives: new ServerRequest(raw).
BodyRequest ==
  \E contentType \in ContentTypes, body \in Bodies, c \in 1..MaxChunk :
    /\ bodyIdle
    /\ stream' = [open |-> TRUE, contentType |-> contentType,
                  arriving |-> chunksOf(body, c), consumed |-> FALSE]
    /\ cache' = NoCache
    /\ gets' = <<>>
    /\ UNCHANGED <<parsers, lookup, servers>>
    /\ othersUnchanged

\* ServerRequest.getBody, awaited by its caller. A decoder that starts to
\* listen on a raw request whose events are past never settles.
decodeBody ==
  IF stream.contentType = <<>>
  THEN [outcome |-> "threw", value |-> NoValue,
        err |-> BadRequestError("Content-Type header missing"),
        decoder |-> 0, read |-> FALSE, cache |-> cache]
  ELSE LET at == findParser(parsers, stream.contentType)
       IN  IF at = 0
           THEN [outcome |-> "threw", value |-> NoValue,
                 err |-> BadRequestError("Unsupported content type"),
                 decoder |-> 0, read |-> FALSE, cache |-> cache]
           ELSE LET result == parse(parsers[at], stream.contentType, stream.arriving)
                IN  IF result.read /\ stream.consumed
                    THEN [outcome |-> "pending", value |-> NoValue, err |-> NoError,
                          decoder |-> at, read |-> TRUE, cache |-> cache]
                    ELSE IF result.ok
                    THEN [outcome |-> "returned", value |-> result.value, err |-> NoError,
                          decoder |-> at, read |-> result.read,
                          cache |-> [bodyParsed |-> TRUE, body |-> result.value]]
                    ELSE [outcome |-> "threw", value |-> NoValue, err |-> result.err,
                          decoder |-> at, read |-> result.read, cache |-> cache]

\* A getBody that decodes on every call.
getBody_noCache == decodeBody

getBody ==
  IF cache.bodyParsed
  THEN [outcome |-> "returned", value |-> cache.body, err |-> NoError,
        decoder |-> 0, read |-> FALSE, cache |-> cache]
  ELSE decodeBody

BodyGetBody ==
  /\ stream.open /\ Len(gets) < MaxGetBody
  /\ LET g == getBody
     IN  /\ gets' = Append(gets, [outcome |-> g.outcome, value |-> g.value, err |-> g.err,
                                  decoder |-> g.decoder, read |-> g.read])
         /\ cache' = g.cache
         /\ stream' = [stream EXCEPT !.consumed = @ \/ g.read]
  /\ UNCHANGED <<parsers, lookup, servers>>
  /\ othersUnchanged

NextBody ==
  \/ BodyRegister \/ BodyConfigure \/ BodyFindParser \/ BodyFindParserDone
  \/ BodyRequest \/ BodyGetBody

SpecBody == Init /\ [][NextBody]_vars

-----------------------------------------------------------------------------
(* getBody calls that overlap: a call is made while the decoder of an       *)
(* earlier call on the same request still waits for the body. A decoder     *)
(* gets the chunks the raw request emits after it began to listen.          *)

overlapOthersUnchanged ==
  UNCHANGED <<routerVars, registered, chainVars, serverVars, requestVars, responseVars,
              multipartVars, scanVars>>

\* getBody up to `await parser.parse(this)`: the cached body is returned; or
\* the call throws before a decoder listens; or its decoder begins to listen.
GetBodyCall ==
  /\ stream.open /\ ~stream.consumed
  /\ Len(gets) + Len(flow.calls) < MaxGetBody
  /\ LET at == IF stream.contentType = <<>> THEN 0
               ELSE findParser(parsers, stream.contentType)
     IN  IF cache.bodyParsed \/ at = 0
            \/ ~parse(parsers[at], stream.contentType, <<>>).read
         THEN LET g == getBody
              IN  /\ gets' = Append(gets, [outcome |-> g.outcome, value |-> g.value,
                                           err |-> g.err, decoder |-> g.decoder,
                                           read |-> g.read, overlapped |-> flow.calls # <<>>])
                  /\ UNCHANGED flow
         ELSE /\ flow' = [flow EXCEPT !.calls =
                            Append([ i \in DOMAIN @ |-> [@[i] EXCEPT !.overlapped = TRUE] ],
                                   [decoder |-> at, from |-> flow.emitted,
                                    overlapped |-> flow.calls # <<>>])]
              /\ UNCHANGED gets
  /\ UNCHANGED <<parsers, stream, cache, lookup, servers>>
  /\ overlapOthersUnchanged

\* The raw request emits 'data' with its next chunk, to the listeners it has.
StreamData ==
  /\ stream.open /\ ~stream.consumed
  /\ flow.calls # <<>>
  /\ flow.emitted < Len(stream.arriving)
  /\ flow' = [flow EXCEPT !.emitted = @ + 1]
  /\ UNCHANGED bodyVars
  /\ overlapOthersUnchanged

\* The raw request emits 'end'.
StreamEnd ==
  /\ stream.open /\ ~stream.consumed
  /\ flow.calls # <<>>
  /\ flow.emitted = Len(stream.arriving)
  /\ stream' = [stream EXCEPT !.consumed = TRUE]
  /\ UNCHANGED <<parsers, cache, gets, lookup, flow, servers>>
  /\ overlapOthersUnchanged

\* After 'end' the decoders settle in the order they began to listen, each
\* with the chunks it heard, and getBody goes on after its await: the body
\* is stored and bodyParsed is set, or the error of the decoder is thrown.
GetBodySettle ==
  /\ stream.consumed /\ flow.calls # <<>>
  /\ LET c == flow.calls[1]
         heard == SubSeq(stream.arriving, c.from + 1, Len(stream.arriving))
         result == parse(parsers[c.decoder], stream.contentType, heard)
     IN  /\ gets' = Append(gets,
                     [outcome |-> IF result.ok THEN "returned" ELSE "threw",
                      value |-> result.value, err |-> result.err,
                      decoder |-> c.decoder, read |-> TRUE, overlapped |-> c.overlapped])
         /\ cache' = IF result.ok THEN [bodyParsed |-> TRUE, body |-> result.value]
                     ELSE cache
  /\ flow' = [flow EXCEPT !.calls = Tail(@)]
  /\ UNCHANGED <<parsers, stream, lookup, servers>>
  /\ overlapOthersUnchanged

NextOverlap ==
  \/ BodyRegister \/ BodyConfigure \/ BodyRequest
  \/ GetBodyCall \/ StreamData \/ StreamEnd \/ GetBodySettle

SpecOverlap == Init /\ [][NextOverlap]_vars

-----------------------------------------------------------------------------
(* The multipart decoder on its own: one MultipartParser, as                *)
(* configureBodyParsers registers one for all requests, decodes the bodies  *)
(* of requests that follow one another, while time passes.                  *)

DefaultOptions ==
  [ limit |-> NoLimit, maxFields |-> NoLimit, maxFieldNameSize |-> NoLimit,
    maxFieldSize |-> NoLimit, maxFileSize |-> NoLimit, preserveExtension |-> "absent" ]

\* The options an application constructs the decoder with.
MultipartConfigs ==
  { DefaultOptions,
    [DefaultOptions EXCEPT !.limit = Limit(4), !.maxFields = Limit(1)],
    [DefaultOptions EXCEPT !.maxFieldNameSize = Limit(1), !.maxFieldSize = Limit(1),
                           !.maxFileSize = Limit(1), !.preserveExtension = "false"] }

\* The parts of the bodies: fields, files, a file part without a name
\* attribute, a part that sends filename before name, and a part without a
\* content-disposition header.
PartAlphabet ==
  { Part(TRUE, <<Attr(<<"name">>, <<"a">>)>>, <<"1", "2">>),
    Part(TRUE, <<Attr(<<"name">>, <<"a", "b">>)>>, <<"1">>),
    Part(TRUE, <<Attr(<<"name">>, <<"a">>), Attr(<<"file", "name">>, <<"f", ".", "t">>)>>,
         <<"1">>),
    Part(TRUE, <<Attr(<<"name">>, <<"a">>), Attr(<<"file", "name">>, <<"f", ".", "t">>)>>,
         <<"1", "2">>),
    Part(TRUE, <<Attr(<<"file", "name">>, <<"f", ".", "t">>)>>, <<"1">>),
    Part(TRUE, <<Attr(<<"file", "name">>, <<"f">>), Attr(<<"name">>, <<"a", "b">>)>>, <<"1">>),
    Part(FALSE, <<>>, <<"1">>) }

MultipartBodies ==
  { [parts |-> ps, closed |-> c] : ps \in SeqsUpTo(PartAlphabet, MaxParts), c \in BOOLEAN }

UnreadBody == [parts |-> <<>>, closed |-> TRUE]

MultipartTypes ==
  { <<"multipart/form-data">>, <<"multipart/form-data", "; boundary=", "x">> }

multipartOthersUnchanged ==
  UNCHANGED <<routerVars, registered, chainVars, serverVars, requestVars,
              responseVars, bodyVars, scanVars, flow>>

\* new MultipartParser(options)
MultipartConstruct ==
  \E options \in MultipartConfigs :
    /\ multipart = NoMultipart
    /\ multipart' = newMultipartParser(options, now)
    /\ UNCHANGED <<now, disk, decode, kept>>
    /\ multipartOthersUnchanged

\* Date.now() moves on.
MultipartTick ==
  /\ now < MaxClock
  /\ now' = now + 1
  /\ UNCHANGED <<multipart, disk, decode, kept>>
  /\ multipartOthersUnchanged

\* The catch of MultipartParser.parse: await this.cleanup(), then throw error.
\* The paths this decode staged are remembered with the outcome.
thrownAfterCleanup(d, err, c, rmOk) ==
  [NoDecode EXCEPT !.pc = "threw", !.err = IF c.threw THEN c.err ELSE err,
                   !.staged = d.staged, !.seen = d.seen,
                   !.cleaned = IF rmOk THEN "removed" ELSE "failed"]

\* MultipartParser.parse for the next request, up to parseParts: mkdir,
\* extractBoundary, getRawBody, parseParts. Without a boundary the body is
\* not read.
MultipartParse ==
  \E contentType \in MultipartTypes :
    \E body \in IF hasBoundary(contentType) THEN MultipartBodies ELSE {UnreadBody} :
      /\ multipart # NoMultipart /\ decode.pc # "processing"
      /\ decode.seen + Len(body.parts) <= MaxParts
      /\ LET fs == mkdir(disk, multipart.tempDir)
             raw == getRawBody(multipart.base, wire(body))
             err == IF ~hasBoundary(contentType)
                    THEN BadRequestError("No multipart boundary found")
                    ELSE IF ~raw.ok THEN TooLarge.err ELSE NoError
             seen == decode.seen + Len(body.parts)
         IN  IF err # NoError
             THEN \E rmOk \in BOOLEAN :
                    LET c == cleanup(multipart, fs, rmOk)
                    IN  /\ disk' = c.fs
                        /\ decode' = [thrownAfterCleanup(NoDecode, err, c, rmOk)
                                        EXCEPT !.seen = seen]
             ELSE /\ disk' = fs
                  /\ decode' = [NoDecode EXCEPT !.pc = "processing", !.seen = seen,
                                                !.parts = parseParts(body)]
      /\ UNCHANGED <<multipart, now, kept>>
      /\ multipartOthersUnchanged

\* processParts: the next part.
MultipartPart ==
  \E writeOk \in BOOLEAN :
    /\ decode.pc = "processing" /\ decode.next <= Len(decode.parts)
    /\ LET r == processPart(multipart, decode, now, disk, writeOk)
       IN  IF r.ok
           THEN decode' = r.d /\ disk' = r.fs
           ELSE \E rmOk \in BOOLEAN :
                  LET c == cleanup(multipart, disk, rmOk)
                  IN  /\ disk' = c.fs
                      /\ decode' = thrownAfterCleanup(decode, r.err, c, rmOk)
    /\ UNCHANGED <<multipart, now, kept>>
    /\ multipartOthersUnchanged

\* processParts is through: parse returns {fields, files}. kept remembers
\* the file records of the last decode that returned, each with the path
\* processFile wrote it to.
MultipartReturn ==
  /\ decode.pc = "processing" /\ decode.next > Len(decode.parts)
  /\ decode' = [decode EXCEPT !.pc = "returned"]
  /\ kept' = [ i \in DOMAIN decode.files |->
                 [file |-> decode.files[i], path |-> decode.staged[i]] ]
  /\ UNCHANGED <<multipart, now, disk>>
  /\ multipartOthersUnchanged

NextMultipart ==
  \/ MultipartConstruct \/ MultipartTick \/ MultipartParse
  \/ MultipartPart \/ MultipartReturn

SpecMultipart == Init /\ [][NextMultipart]_vars

-----------------------------------------------------------------------------
(* The part scanner: parse of the shared MultipartParser for two requests,  *)
(* from extractBoundary to the end of parseParts. A buffer is a sequence   *)
(* of pieces: "--", a boundary name, CRLF, a header line "h", data "t".     *)
(* Positions count pieces from 0, as the code counts bytes.                 *)

CRLF == "CRLF"

\* pat occurs in raw at position i.
startsAt(raw, pat, i) ==
  /\ i >= 0 /\ i + Len(pat) <= Len(raw)
  /\ SubSeq(raw, i + 1, i + Len(pat)) = pat

\* raw.indexOf(pat, from): the first position from `from` on, or -1.
indexOf(raw, pat, from) ==
  LET hits == { i \in from..Len(raw) : startsAt(raw, pat, i) }
  IN  IF hits = {} THEN -1 ELSE CHOOSE i \in hits : \A j \in hits : i <= j

\* The content types of the two requests.
ScanTypes ==
  { <<"multipart/form-data">>,
    <<"multipart/form-data", "; boundary=", "X">>,
    <<"multipart/form-data", "; boundary=", "Y">> }

\* MultipartParser.extractBoundary: '--' and the boundary parameter, or
\* BadRequest when the content type has none.
extractBoundary(contentType) ==
  IF ~hasBoundary(contentType)
  THEN [threw |-> TRUE, value |-> <<>>, err |-> BadRequestError("No multipart boundary found")]
  ELSE LET i == CHOOSE j \in 1..(Len(contentType) - 1) :
                  /\ toLowerCase(contentType)[j] = "; boundary="
                  /\ \A k \in 1..(j - 1) : toLowerCase(contentType)[k] # "; boundary="
       IN  [threw |-> FALSE, value |-> <<"--", contentType[i + 1]>>, err |-> NoError]

\* `\r\n${this.boundary}` and `\r\n${this.boundary}--`
boundaryMarker(b) == <<CRLF>> \o b
finalBoundaryMarker(b) == <<CRLF>> \o b \o <<"--">>

\* parseParts up to its loop: position = raw.indexOf(boundary) + boundary.length
parsePartsBegin(who, raw, b) ==
  [ pc |-> "while", who |-> who, raw |-> raw, boundary |-> b,
    position |-> indexOf(raw, b, 0) + Len(b),
    currentPart |-> <<>>, parts |-> <<>>, top |-> 0, iterations |-> 0 ]

\* The head of one iteration of the loop: the loop condition, the check for
\* the final boundary, the line break after the boundary; then the headers
\* are read if no part is open. top is the position the iteration began at.
parsePartsWhile(sc) ==
  IF ~(sc.position < Len(sc.raw)) THEN [sc EXCEPT !.pc = "done"]
  ELSE IF startsAt(sc.raw, finalBoundaryMarker(sc.boundary), sc.position)
  THEN [sc EXCEPT !.pc = "done"]
  ELSE LET position == IF sc.raw[sc.position + 1] = CRLF THEN sc.position + 1
                       ELSE sc.position
       IN  IF sc.currentPart = <<>>
           THEN [sc EXCEPT !.top = sc.position, !.position = position,
                           !.currentPart = <<[headers |-> <<>>, data |-> <<>>]>>,
                           !.pc = "headers"]
           ELSE [sc EXCEPT !.top = sc.position, !.position = position, !.pc = "data"]

\* One iteration of the loop over the header lines: it ends at the end of
\* the buffer, where no line end is left, and after the empty line.
parsePartsHeaderLine(sc) ==
  IF ~(sc.position < Len(sc.raw)) THEN [sc EXCEPT !.pc = "data"]
  ELSE LET lineEnd == indexOf(sc.raw, <<CRLF>>, sc.position)
       IN  IF lineEnd = -1 THEN [sc EXCEPT !.pc = "data"]
           ELSE LET headerLine == SubSeq(sc.raw, sc.position + 1, lineEnd)
                IN  IF headerLine = <<>>
                    THEN [sc EXCEPT !.position = lineEnd + 1, !.pc = "data"]
                    ELSE [sc EXCEPT !.position = lineEnd + 1,
                                    !.currentPart[1].headers = Append(@, headerLine)]

\* A scanner that leaves the position where it is when no boundary follows.
parsePartsData_noAdvance(sc) ==
  LET marker == boundaryMarker(sc.boundary)
      nextBoundary == indexOf(sc.raw, marker, sc.position)
      dataEnd == IF nextBoundary = -1 THEN Len(sc.raw) ELSE nextBoundary
      data == sc.currentPart[1].data \o SubSeq(sc.raw, sc.position + 1, dataEnd)
  IN  IF nextBoundary # -1
      THEN [sc EXCEPT !.parts = Append(@, [headers |-> sc.currentPart[1].headers,
                                           data |-> data]),
                      !.currentPart = <<>>,
                      !.position = nextBoundary + Len(marker),
                      !.iterations = @ + 1,
                      !.pc = "while"]
      ELSE [sc EXCEPT !.currentPart[1].data = data,
                      !.iterations = @ + 1,
                      !.pc = "while"]

\* The rest of the iteration: the data up to the next boundary marker; with a
\* marker the part is complete and the position moves past the marker,
\* without one the position moves to the end of the buffer.
parsePartsData(sc) ==
  LET marker == boundaryMarker(sc.boundary)
      nextBoundary == indexOf(sc.raw, marker, sc.position)
      dataEnd == IF nextBoundary = -1 THEN Len(sc.raw) ELSE nextBoundary
      data == sc.currentPart[1].data \o SubSeq(sc.raw, sc.position + 1, dataEnd)
  IN  IF nextBoundary # -1
      THEN [sc EXCEPT !.parts = Append(@, [headers |-> sc.currentPart[1].headers,
                                           data |-> data]),
                      !.currentPart = <<>>,
                      !.position = nextBoundary + Len(marker),
                      !.iterations = @ + 1,
                      !.pc = "while"]
      ELSE [sc EXCEPT !.currentPart[1].data = data,
                      !.position = dataEnd,
                      !.iterations = @ + 1,
                      !.pc = "while"]

\* The parts of the bodies the scanner is given.
ScanPart == [headers : {<<>>, <<"h">>}, data : {<<>>, <<"t">>}]

RECURSIVE partsOnWire(_, _)
partsOnWire(ps, id) ==
  IF ps = <<>> THEN <<>>
  ELSE <<CRLF>> \o (IF ps[1].headers = <<>> THEN <<>> ELSE ps[1].headers \o <<CRLF>>)
       \o <<CRLF>> \o ps[1].data \o <<CRLF, "--", id>> \o partsOnWire(Tail(ps), id)

\* A well-formed body: the boundary line, the parts, each with its headers,
\* the empty line, its data and the boundary after it, and the closing "--".
wellFormed(ps, id) == <<"--", id>> \o partsOnWire(ps, id) \o <<"--">>

\* A body whose first boundary line is followed by the closing marker.
closedAtOnce(id) == <<"--", id, CRLF, "--", id, "--">>

\* The buffers: the well-formed bodies for the boundaries X and Y, and what
\* is left of them when the end is cut off or one piece is missing (no
\* boundary, no closing marker, no empty line after the headers, ...).
ScanBuffers ==
  LET whole == { wellFormed(ps, id) : ps \in SeqsUpTo(ScanPart, MaxScanParts), id \in {"X", "Y"} }
               \cup { closedAtOnce(id) : id \in {"X", "Y"} }
  IN  UNION { { SubSeq(w, 1, n) : n \in 0..Len(w) }
              \cup { SubSeq(w, 1, n - 1) \o SubSeq(w, n + 1, Len(w)) : n \in 1..Len(w) }
              : w \in whole }

scanOthersUnchanged ==
  UNCHANGED <<routerVars, registered, chainVars, serverVars, requestVars,
              responseVars, bodyVars, multipartVars, flow>>

\* parse(req) up to `await this.getRawBody(req)`: this.boundary is set from
\* the request's content type, or extractBoundary throws.
ScanParse ==
  \E r \in DOMAIN parses, contentType \in ScanTypes :
    LET b == extractBoundary(contentType)
    IN  /\ scan.pc = "idle"
        /\ parses[r].pc = "idle"
        /\ IF b.threw
           THEN /\ parses' = [parses EXCEPT ![r] = [NoParse EXCEPT !.pc = "failed",
                                                                  !.contentType = contentType,
                                                                  !.err = b.err]]
                /\ UNCHANGED boundary
           ELSE /\ parses' = [parses EXCEPT ![r] = [NoParse EXCEPT !.pc = "buffering",
                                                                  !.contentType = contentType]]
                /\ boundary' = b.value
        /\ UNCHANGED scan
        /\ scanOthersUnchanged

\* getRawBody has resolved with the body of request r: parseParts begins, with
\* the boundary the decoder holds now.
ScanBody ==
  \E r \in DOMAIN parses, raw \in ScanBuffers :
    /\ scan.pc = "idle"
    /\ parses[r].pc = "buffering"
    /\ parses' = [parses EXCEPT ![r].pc = "scanning"]
    /\ scan' = parsePartsBegin(r, raw, boundary)
    /\ UNCHANGED boundary
    /\ scanOthersUnchanged

\* parseParts runs without suspending: no other request's step comes between.
ScanWhile ==
  /\ scan.pc = "while"
  /\ scan' = parsePartsWhile(scan)
  /\ UNCHANGED <<boundary, parses>>
  /\ scanOthersUnchanged

ScanHeaderLine ==
  /\ scan.pc = "headers"
  /\ scan' = parsePartsHeaderLine(scan)
  /\ UNCHANGED <<boundary, parses>>
  /\ scanOthersUnchanged

ScanData ==
  /\ scan.pc = "data"
  /\ scan' = parsePartsData(scan)
  /\ UNCHANGED <<boundary, parses>>
  /\ scanOthersUnchanged

\* parseParts returns its parts; what is kept of the call is the boundary it
\* split with.
ScanReturn ==
  /\ scan.pc = "done"
  /\ parses' = [parses EXCEPT ![scan.who].pc = "done",
                              ![scan.who].used = scan.boundary]
  /\ scan' = NoScan
  /\ UNCHANGED boundary
  /\ scanOthersUnchanged

ScanStep == ScanWhile \/ ScanHeaderLine \/ ScanData \/ ScanReturn

NextScan == ScanParse \/ ScanBody \/ ScanStep

SpecScan == Init /\ [][NextScan]_vars

\* A parseParts that was called runs on.
FairScan == SpecScan /\ WF_vars(ScanStep)

-----------------------------------------------------------------------------
(* The Router on its own: routes are added, then looked up. *)

\* router.addRoute(method, path, handler) with a fresh handler.
RouterAdd ==
  \E method \in RouterMethods, path \in RouterTemplates :
    /\ registered < MaxRoutes
    /\ ~found.called
    /\ Router_addRoute(method, path, registered + 1)
    /\ registered' = registered + 1
    /\ UNCHANGED <<flow, scanVars, multipartVars, bodyVars, responseVars, found, serverVars, chainVars, requestVars>>

\* router.findRoute(method, path): the caller holds the result.
RouterFind ==
  \E method \in RouterMethods, path \in Paths :
    /\ ~found.called
    /\ found' = [called |-> TRUE, method |-> method, path |-> path,
                 result |-> findRoute(method, path)]
    /\ UNCHANGED <<flow, scanVars, multipartVars, bodyVars, responseVars, routes, patterns, registered, serverVars, chainVars, requestVars>>

\* The caller is done with the result.
RouterDone ==
  /\ found.called
  /\ found' = NoCall
  /\ UNCHANGED <<flow, scanVars, multipartVars, bodyVars, responseVars, routes, patterns, registered, serverVars, chainVars, requestVars>>

NextRouter == RouterAdd \/ RouterFind \/ RouterDone

SpecRouter == Init /\ [][NextRouter]_vars

-----------------------------------------------------------------------------
(* Server: the dispatcher *)

\* A normalization that wraps every error in a new TyrError with the default
\* status.
normalizeError_wrapAll(e) == [type |-> "TyrError", statusCode |-> 500, msg |-> e.msg]

\* Server.normalizeError: a TyrError stays; any other Error becomes a TyrError
\* with its message and the default status 500.
normalizeError(e) ==
  IF e.type \in {"TyrError", "NotFoundError"} THEN e
  ELSE [type |-> "TyrError", statusCode |-> 500, msg |-> e.msg]

\* A default handler that sets the status and sends nothing.
defaultErrorHandler_statusOnly(e, r) ==
  LET statusCode == IF e.statusCode = 0 THEN 500 ELSE e.statusCode
  IN  [res |-> status(r, statusCode), threw |-> FALSE]

\* Server.defaultErrorHandler: res.status(statusCode).json({error: ...}).
defaultErrorHandler(e, r) ==
  LET statusCode == IF e.statusCode = 0 THEN 500 ELSE e.statusCode
  IN  json(status(r, statusCode), ErrorBody(statusCode))

\* The closure of a settled execute is gone.
dropChain ==
  /\ running' = <<>>
  /\ index' = 1
  /\ stack' = <<>>
  /\ invocations' = <<>>
  /\ execState' = "idle"
  /\ error' = NoError

\* catch (error) { await this.handleError(error, req, res) }: up to the loop.
catchError(e) ==
  /\ pc' = "errors"
  /\ tyrError' = normalizeError(e)
  /\ errIdx' = 1
  /\ handled' = Append(handled, e)

\* handleRequest is called with a request: the request and response objects
\* are made and the global chain is started.
Dispatch ==
  \E method \in RequestMethods, path \in RequestPaths :
    /\ serverIdle
    /\ pc' = "global"
    /\ req' = [method |-> method, path |-> path, params |-> <<>>]
    /\ res' = createResponse
    /\ execute(globalMiddleware)
    /\ UNCHANGED <<flow, scanVars, multipartVars, bodyVars, responseVars, routerVars, registered, serverVars,
                   errIdx, tyrError, raised, handled, tried, handlerRuns>>

inChain == pc \in {"global", "routeMw"} /\ execState = "running"

\* A middleware of the running chain calls next(), or returns.
MiddlewareCallsNext ==
  /\ inChain
  /\ MwCallNext
  /\ UNCHANGED <<flow, scanVars, multipartVars, bodyVars, responseVars, routerVars, registered, serverVars, requestVars>>

MiddlewareReturns ==
  /\ inChain
  /\ MwReturn
  /\ UNCHANGED <<flow, scanVars, multipartVars, bodyVars, responseVars, routerVars, registered, serverVars, requestVars>>

\* A middleware throws.
MiddlewareThrows ==
  \E e \in ThrownErrors :
    /\ inChain
    /\ throwInChain(e)
    /\ raised' = Append(raised, [by |-> pc, err |-> e])
    /\ UNCHANGED <<flow, scanVars, multipartVars, bodyVars, responseVars, routerVars, registered, serverVars, running, index,
                   pc, req, res, errIdx, tyrError, handled, tried, handlerRuns>>

\* A middleware calls res.json(...), once in an invocation: on a response
\* already sent that throws inside the middleware.
MiddlewareSends ==
  /\ inChain
  /\ ~invocations[Top(stack)].sent
  /\ LET j == json(res, DataBody)
     IN  IF j.threw
         THEN /\ throwInChain(AlreadySent)
              /\ raised' = Append(raised, [by |-> pc, err |-> AlreadySent])
              /\ UNCHANGED res
         ELSE /\ res' = j.res
              /\ invocations' = [invocations EXCEPT ![Top(stack)].sent = TRUE]
              /\ UNCHANGED <<stack, execState, error, raised>>
  /\ UNCHANGED <<flow, scanVars, multipartVars, bodyVars, responseVars, routerVars, registered, serverVars, running, index,
                 pc, req, errIdx, tyrError, handled, tried, handlerRuns>>

\* A dispatcher that leaves the request's params as they were.
setParams_notYet(request, result) == request

\* req.params = result.params
setParams(request, result) == [request EXCEPT !.params = result.params]

\* The global chain has resolved: return if the response is sent, otherwise
\* find the route, set the params, and start the route's chain or its handler.
AfterGlobal ==
  /\ pc = "global" /\ execState = "resolved"
  /\ LET result == findRoute(req.method, req.path)
         key == AsGiven(result.path)
     IN  IF res.sent
         THEN /\ pc' = "done"
              /\ dropChain
              /\ UNCHANGED <<found, req, errIdx, tyrError, handled>>
         ELSE /\ found' = [called |-> TRUE, method |-> req.method, path |-> req.path,
                           result |-> result]
              /\ IF ~result.found
                 THEN /\ catchError(NotFoundError)
                      /\ dropChain
                      /\ UNCHANGED req
                 ELSE /\ req' = setParams(req, result)
                      /\ UNCHANGED <<errIdx, tyrError, handled>>
                      /\ IF key \in DOMAIN routeMiddleware
                         THEN /\ pc' = "routeMw"
                              /\ execute(routeMiddleware[key])
                         ELSE /\ pc' = "handler"
                              /\ dropChain
  /\ UNCHANGED <<flow, scanVars, multipartVars, bodyVars, responseVars, routes, patterns, registered, serverVars, res, raised, tried, handlerRuns>>

\* A dispatcher that goes on to the handler whatever the route's chain did
\* with the response.
AfterRouteMiddleware_noSentCheck ==
  /\ pc = "routeMw" /\ execState = "resolved"
  /\ pc' = "handler"
  /\ dropChain
  /\ UNCHANGED <<flow, scanVars, multipartVars, bodyVars, responseVars, routerVars, registered, serverVars,
                 req, res, errIdx, tyrError, raised, handled, tried, handlerRuns>>

\* The route's chain has resolved.
AfterRouteMiddleware ==
  /\ pc = "routeMw" /\ execState = "resolved"
  /\ pc' = IF res.sent THEN "done" ELSE "handler"
  /\ dropChain
  /\ UNCHANGED <<flow, scanVars, multipartVars, bodyVars, responseVars, routerVars, registered, serverVars,
                 req, res, errIdx, tyrError, raised, handled, tried, handlerRuns>>

\* A chain was rejected: the catch block calls handleError.
ChainRejected ==
  /\ pc \in {"global", "routeMw"} /\ execState = "rejected"
  /\ catchError(error)
  /\ dropChain
  /\ UNCHANGED <<flow, scanVars, multipartVars, bodyVars, responseVars, routerVars, registered, serverVars, req, res, raised, tried, handlerRuns>>

\* What the function stored as a route's handler can do when it is called.
handlerOutcomes(h) == IF h = authenticate THEN MiddlewareOutcomes ELSE Outcomes

\* A dispatcher that returns after the route handler without looking at the
\* response.
RunHandler_noSentCheck ==
  \E o \in handlerOutcomes(found.result.handler) :
    LET r == runUser(res, o)
    IN  /\ pc = "handler"
        /\ handlerRuns' = Append(handlerRuns, found.result.handler)
        /\ res' = r.res
        /\ IF r.threw
           THEN /\ raised' = Append(raised, [by |-> "handler", err |-> r.err])
                /\ catchError(r.err)
           ELSE /\ UNCHANGED raised
                /\ pc' = "done"
                /\ UNCHANGED <<errIdx, tyrError, handled>>
        /\ UNCHANGED <<flow, scanVars, multipartVars, bodyVars, responseVars, routerVars, registered, serverVars, chainVars, req, tried>>

\* await result.route.handler(req, res), then the check that a response was sent.
RunHandler ==
  \E o \in handlerOutcomes(found.result.handler) :
    LET r == runUser(res, o)
    IN  /\ pc = "handler"
        /\ handlerRuns' = Append(handlerRuns, found.result.handler)
        /\ res' = r.res
        /\ IF r.threw
           THEN /\ raised' = Append(raised, [by |-> "handler", err |-> r.err])
                /\ catchError(r.err)
           ELSE /\ UNCHANGED raised
                /\ IF ~r.res.sent
                   THEN catchError(NoResponseSent)
                   ELSE /\ pc' = "done"
                        /\ UNCHANGED <<errIdx, tyrError, handled>>
        /\ UNCHANGED <<flow, scanVars, multipartVars, bodyVars, responseVars, routerVars, registered, serverVars, chainVars, req, tried>>

\* A loop that returns as soon as the response is sent, whether or not the
\* handler threw.
errorHandlerTurn_stopWhenSent(h, r) ==
  /\ tried' = Append(tried, [h |-> h, threw |-> r.threw, sent |-> r.res.sent])
  /\ IF r.res.sent
     THEN /\ pc' = "done"
          /\ res' = r.res
          /\ UNCHANGED errIdx
     ELSE IF errIdx < Len(errorHandlers)
     THEN /\ errIdx' = errIdx + 1
          /\ res' = r.res
          /\ UNCHANGED pc
     ELSE LET last == defaultErrorHandler(tyrError, r.res)
          IN  /\ res' = last.res
              /\ pc' = IF last.threw THEN "rejected" ELSE "done"
              /\ UNCHANGED errIdx

\* One turn of handleError's loop: the handler runs; the loop returns if it
\* completed with the response sent, and goes on if it threw or sent nothing.
\* After the last handler, a response still unsent is given to
\* defaultErrorHandler.
errorHandlerTurn(h, r) ==
  /\ tried' = Append(tried, [h |-> h, threw |-> r.threw, sent |-> r.res.sent])
  /\ IF ~r.threw /\ r.res.sent
     THEN /\ pc' = "done"
          /\ res' = r.res
          /\ UNCHANGED errIdx
     ELSE IF errIdx < Len(errorHandlers)
     THEN /\ errIdx' = errIdx + 1
          /\ res' = r.res
          /\ UNCHANGED pc
     ELSE LET last == IF r.res.sent THEN [res |-> r.res, threw |-> FALSE]
                      ELSE defaultErrorHandler(tyrError, r.res)
          IN  /\ res' = last.res
              /\ pc' = IF last.threw THEN "rejected" ELSE "done"
              /\ UNCHANGED errIdx

ErrorHandlerRuns ==
  /\ pc = "errors"
  /\ LET h == errorHandlers[errIdx]
     IN  IF h = 0
         THEN errorHandlerTurn(h, defaultErrorHandler(tyrError, res))
         ELSE \E o \in Outcomes : errorHandlerTurn(h, runUser(res, o))
  /\ UNCHANGED <<flow, scanVars, multipartVars, bodyVars, responseVars, routerVars, registered, serverVars, chainVars,
                 req, tyrError, raised, handled, handlerRuns>>

\* handleRequest has returned; the request and the response are dropped.
RequestDone ==
  /\ pc = "done"
  /\ pc' = "idle"
  /\ req' = NoRequest
  /\ res' = createResponse
  /\ errIdx' = 0
  /\ tyrError' = NoError
  /\ raised' = <<>>
  /\ handled' = <<>>
  /\ tried' = <<>>
  /\ handlerRuns' = <<>>
  /\ found' = NoCall
  /\ UNCHANGED <<flow, scanVars, multipartVars, bodyVars, responseVars, routes, patterns, registered, serverVars, chainVars>>

Register ==
  \/ ServerGet \/ ServerGetWithMiddleware \/ ServerPost \/ ServerPut \/ ServerDelete \/ ServerPatch
  \/ ServerUse \/ ServerUseRoute \/ ServerOnError

RequestStep ==
  \/ MiddlewareCallsNext \/ MiddlewareReturns \/ MiddlewareThrows \/ MiddlewareSends
  \/ AfterGlobal \/ AfterRouteMiddleware \/ ChainRejected
  \/ RunHandler \/ ErrorHandlerRuns

Next == Register \/ Dispatch \/ RequestStep \/ RequestDone

Spec == Init /\ [][Next]_vars

\* Node runs every continuation of a request whose awaited calls settle.
FairSpec == Spec /\ WF_vars(RequestStep)

-----------------------------------------------------------------------------
(* What it means for a path to match a template, stated on the template    *)
(* itself: a literal segment equals the path segment at its place, a       *)
(* placeholder stands for one non-empty segment, and "*" (at most one per  *)
(* template here) stands for one or more whole segments.                   *)

HasStar(T) == \E i \in DOMAIN T : T[i].k = "star"

\* The place in path p of the i-th segment of template T.
Place(T, p, i) ==
  IF \E j \in 1..(i - 1) : T[j].k = "star" THEN i + (Len(p) - Len(T)) ELSE i

TemplateMatches(T, p) ==
  /\ Len(p) >= Len(T)
  /\ ~HasStar(T) => Len(p) = Len(T)
  /\ \A i \in DOMAIN T :
        CASE T[i].k = "lit" -> p[Place(T, p, i)] = T[i].v
          [] T[i].k = "param" -> p[Place(T, p, i)] # ""
          [] OTHER -> TRUE

\* The places in T of its placeholders, in declaration order.
ParamPlaces(T) ==
  LET idx == [i \in DOMAIN T |-> i]
  IN  SelectSeq(idx, LAMBDA i : T[i].k = "param")

Lists(i, method) == method \in DOMAIN routes[i].methods

FirstMatching(p) ==
  CHOOSE i \in DOMAIN routes :
    /\ TemplateMatches(routes[i].path, p)
    /\ \A j \in 1..(i - 1) : ~TemplateMatches(routes[j].path, p)

SomeMatching(p) == \E i \in DOMAIN routes : TemplateMatches(routes[i].path, p)

FirstServing(method, p) ==
  CHOOSE i \in DOMAIN routes :
    /\ TemplateMatches(routes[i].path, p) /\ Lists(i, method)
    /\ \A j \in 1..(i - 1) : ~(TemplateMatches(routes[j].path, p) /\ Lists(j, method))

SomeServing(method, p) ==
  \E i \in DOMAIN routes : TemplateMatches(routes[i].path, p) /\ Lists(i, method)

-----------------------------------------------------------------------------
(* Claims about the Router (SpecRouter) *)

\* C2: for every route (M, T, H) in the table and every path p matching T that
\* no earlier-registered template matches, findRoute(M, p) returns H and binds
\* the i-th captured segment to the i-th declared parameter name, for every i.
C2_ResolvesHandlerAndParams ==
  found.called =>
    \A i \in DOMAIN routes :
      LET T == routes[i].path
          p == found.path
          places == ParamPlaces(T)
      IN  ( /\ Lists(i, found.method)
            /\ TemplateMatches(T, p)
            /\ \A j \in 1..(i - 1) : ~TemplateMatches(routes[j].path, p) )
          => /\ found.result.found
             /\ found.result.handler = routes[i].methods[found.method].handler
             /\ \A k \in DOMAIN places :
                   found.result.params[T[places[k]].v] = p[Place(T, p, places[k])]

-----------------------------------------------------------------------------
(* Claims about MiddlewareChain.execute (SpecChain) *)

RECURSIVE TotalCalls(_)
TotalCalls(invs) ==
  IF invs = <<>> THEN 0 ELSE invs[1].calls + TotalCalls(Tail(invs))

\* C6: execute invokes the handlers in strict registration order: the first
\* invocation is of the first-registered handler, the k+1-th invocation is of
\* handler k+1, and every invocation after the first comes from a continuation
\* call, so no handler is invoked before an earlier-registered one.
C6_InvokedInRegistrationOrder ==
  /\ \A j \in DOMAIN invocations : invocations[j].h = j
  /\ Len(invocations) <= 1 + TotalCalls(invocations)
  /\ execState \in {"running", "resolved", "rejected"} /\ running # <<>>
       => Len(invocations) >= 1

C6_Witness ==
  /\ execState = "resolved"
  /\ Len(running) = 3
  /\ Len(invocations) = 3
  /\ \E j \in DOMAIN invocations : invocations[j].calls = 2

\* C7 as stated: once a handler has returned without calling its continuation,
\* no later-registered handler of the chain is invoked, and execute is not
\* rejected unless a handler threw.
C7_Original_ShortCircuit ==
  /\ \A j \in DOMAIN invocations :
        (invocations[j].state = "returned" /\ invocations[j].calls = 0)
        => \A l \in DOMAIN invocations : invocations[l].h <= invocations[j].h
  /\ execState = "rejected" => \E j \in DOMAIN invocations : invocations[j].state = "threw"

\* C7 amended: once a handler has returned without calling its continuation,
\* no later-registered handler is invoked as long as no earlier-registered
\* handler calls its own continuation a second time; execute is not rejected
\* unless a handler threw.
C7_ShortCircuitUnlessCalledAgain ==
  /\ \A j \in DOMAIN invocations :
        ( /\ invocations[j].state = "returned"
          /\ invocations[j].calls = 0
          /\ \A l \in DOMAIN invocations :
                invocations[l].h < invocations[j].h => invocations[l].calls <= 1 )
        => \A l \in DOMAIN invocations : invocations[l].h <= invocations[j].h
  /\ execState = "rejected" => \E j \in DOMAIN invocations : invocations[j].state = "threw"

C7_Witness ==
  /\ execState = "resolved"
  /\ Len(running) = 3
  /\ Len(invocations) = 2
  /\ invocations[1].calls = 1
  /\ invocations[2].calls = 0
  /\ invocations[2].state = "returned"

\* C8 as stated: when a handler has called its continuation more than once,
\* some handler of the chain has been executed more than once in this execute.
C8_Original_ReinvokesDeeper ==
  ( /\ execState = "resolved"
    /\ \E j \in DOMAIN invocations :
          invocations[j].calls >= 2 /\ invocations[j].h < Len(running) )
  => \E j, l \in DOMAIN invocations : j # l /\ invocations[j].h = invocations[l].h

\* C8 amended: however often continuations are called, no handler is executed
\* more than once within one execute; a repeated call invokes the next handler
\* not yet invoked, or nothing once the chain is exhausted.
C8_EachHandlerAtMostOnce ==
  /\ \A j, l \in DOMAIN invocations :
        invocations[j].h = invocations[l].h => j = l
  /\ Len(invocations) <= Len(running)
  /\ execState = "running" => index = TotalCalls(invocations) + 2

C8_Witness ==
  /\ execState = "resolved"
  /\ Len(running) = 3
  /\ invocations[1].calls = 2
  /\ Len(invocations) = 3
  /\ invocations[2].calls = 0

-----------------------------------------------------------------------------
(* Claims about the dispatcher (Spec, FairSpec) *)

InFlight == pc \in {"global", "routeMw", "handler", "errors"}

registeredRoute(method, p) ==
  \/ \E i \in DOMAIN routes :
        TemplateMatches(routes[i].path, p) /\ method \in DOMAIN routes[i].methods
  \/ \E k \in DOMAIN serverRoutes :
        TemplateMatches(k, p) /\ method \in DOMAIN serverRoutes[k]

\* C5: a request whose method and path have a handler registered through
\* server.get, .post, .put, .delete or .patch is never answered with the
\* not-found error, and the handler that runs for it is the registered one.
C5_RegisteredHandlerIsDispatched ==
  registeredRoute(req.method, req.path)
  => /\ tyrError # NotFoundError
     /\ \A j \in DOMAIN handlerRuns : handlerRuns[j] = handlerOf(req.method)

C10_Original_StopsWhenSent ==
  /\ \A j \in DOMAIN tried : tried[j].h = errorHandlers[j]
  /\ \A j \in DOMAIN tried : tried[j].sent => j = Len(tried)
  /\ (pc = "done" /\ tried # <<>> /\ tried[Len(tried)].threw)
       => Len(tried) = Len(errorHandlers)

\* C10 amended: the error handlers are tried in registration order; the loop
\* stops after the first one that returns normally with the response sent; a
\* handler that throws is caught and the next one is tried, also when the
\* response is already sent; nothing but a normal return with the response
\* sent, or running out of handlers, ends the loop.
C10_StopsAfterNormalReturnWhenSent ==
  /\ \A j \in DOMAIN tried : tried[j].h = errorHandlers[j]
  /\ \A j \in DOMAIN tried : (~tried[j].threw /\ tried[j].sent) => j = Len(tried)
  /\ pc = "errors" => (errIdx = Len(tried) + 1 /\ errIdx <= Len(errorHandlers))
  /\ (pc = "done" /\ handled # <<>>) =>
        /\ tried # <<>>
        /\ \/ Len(tried) = Len(errorHandlers)
           \/ (~tried[Len(tried)].threw /\ tried[Len(tried)].sent)

C10_Witness ==
  /\ pc = "done"
  /\ Len(errorHandlers) = 3
  /\ Len(tried) = 2
  /\ tried[1].threw /\ tried[1].sent
  /\ ~tried[2].threw

\* C11: when a request fails, defaultErrorHandler runs last: every handler the
\* application registered with onError has been tried before it, and it
\* writes the response only when none of them has sent one.
C11_DefaultHandlerRunsLast ==
  \A j \in DOMAIN tried :
    tried[j].h = 0 =>
      \A k \in 1..(Len(errorHandlers) - 1) :
        \E i \in 1..(j - 1) : tried[i].h = errorHandlers[k + 1]

\* C12: when the route handler completes (without throwing) and the response
\* is not sent, handleRequest raises the "No response sent by handler" error,
\* a TyrError with status 500, into handleError; the request then ends with
\* the 500 error response.
C12_NoResponseSentIsRaised ==
  /\ [][ ( /\ pc = "handler" /\ pc' # "handler"
           /\ raised' = raised
           /\ ~res'.sent )
         => ( /\ pc' = "errors"
              /\ handled' = Append(handled, NoResponseSent)
              /\ tyrError' = NoResponseSent
              /\ tyrError'.statusCode = 500 ) ]_vars
  /\ [](pc = "done" /\ handled = <<NoResponseSent>>
         => res.sent /\ res.ended = 1 /\ res.statusCode = 500 /\ res.body = ErrorBody(500))

C12_Witness ==
  /\ pc = "done"
  /\ handlerRuns # <<>>
  /\ raised = <<>>
  /\ handled = <<NoResponseSent>>
  /\ res.statusCode = 500

\* C13: a request whose global middleware neither sends nor throws and whose
\* path matches no registered template is answered with status 404 and an
\* error body whose statusCode is 404; and whenever the response carries the
\* default error body, the status code and the body's statusCode agree.
C13_UnregisteredPathIs404 ==
  /\ (pc \in {"errors", "done"} /\ found.called /\ ~SomeMatching(req.path))
       => (handled = <<NotFoundError>> /\ tyrError.statusCode = 404)
  /\ (pc = "done" /\ found.called /\ ~SomeMatching(req.path))
       => (res.sent /\ res.statusCode = 404 /\ res.body = ErrorBody(404))
  /\ res.body.kind = "error" => res.statusCode = res.body.statusCode

C13_Witness ==
  /\ pc = "done"
  /\ req.path = <<"b">>
  /\ routes # <<>>
  /\ res.statusCode = 404
  /\ res.body = ErrorBody(404)

\* C14: once the response of a request is sent, nothing changes its status
\* code any more: every later status or json call on it fails and leaves it
\* as it was, also while the error handlers run.
C14_SentResponseIsFrozen ==
  [][ (res.sent /\ pc' # "idle") => res'.statusCode = res.statusCode ]_vars

-----------------------------------------------------------------------------
(* Claims about ServerResponse (SpecResponse) *)

Ending == {"json", "send", "redirect"}

\* C15: in any sequence of calls on one response, the first json, send or
\* redirect succeeds, ends the raw response and marks the response sent;
\* every later json, send or redirect throws and leaves the response, its
\* status code, headers and body as they were; the raw response is never
\* ended twice.
C15_OnlyFirstEndingCallSucceeds ==
  /\ res.ended <= 1
  /\ \A j \in DOMAIN calls :
        calls[j].op \in Ending =>
          IF \A i \in 1..(j - 1) : calls[i].op \notin Ending
          THEN /\ ~calls[j].threw
               /\ calls[j].after.sent
               /\ calls[j].after.ended = calls[j].before.ended + 1
          ELSE /\ calls[j].threw
               /\ calls[j].after = calls[j].before

C15_Witness ==
  /\ Len(calls) = 3
  /\ calls[1].op = "redirect" /\ ~calls[1].threw
  /\ calls[2].op = "json" /\ calls[2].threw
  /\ calls[3].op = "send" /\ calls[3].threw
  /\ res.ended = 1

-----------------------------------------------------------------------------
(* Claims about the body parsers (SpecBody) *)

\* C16: getBody is lazy and memoized: before the first getBody call nothing
\* is decoded and the raw request is not read; after a getBody call has
\* returned a value, every later call on the request returns that value, runs
\* no decoder and does not read the raw request.
C16_LazyAndMemoized ==
  /\ (stream.open /\ gets = <<>>) => (~cache.bodyParsed /\ ~stream.consumed)
  /\ \A i, j \in DOMAIN gets :
        (i < j /\ gets[i].outcome = "returned")
        => /\ gets[j].outcome = "returned"
           /\ gets[j].value = gets[i].value
           /\ gets[j].decoder = 0
           /\ ~gets[j].read

C16_Witness ==
  /\ Len(gets) = 2
  /\ gets[1].outcome = "returned" /\ gets[1].decoder # 0 /\ gets[1].read
  /\ gets[2].outcome = "returned" /\ gets[2].decoder = 0
  /\ gets[2].value.kind = "number"

\* The earliest-registered parser whose detect accepts the content type, 0
\* when none does.
EarliestAccepting(contentType) ==
  IF \E i \in DOMAIN parsers : detect(parsers[i], contentType)
  THEN CHOOSE i \in DOMAIN parsers :
         /\ detect(parsers[i], contentType)
         /\ \A j \in 1..(i - 1) : ~detect(parsers[j], contentType)
  ELSE 0

\* C17 as stated: findParser returns the earliest-registered parser whose
\* detect accepts the content type, and nothing when no parser accepts it.
C17_Original_EarliestAccepting ==
  lookup.called => lookup.result = EarliestAccepting(lookup.contentType)

\* C17 amended: for a non-empty content type findParser returns the
\* earliest-registered parser whose detect accepts it, and nothing when no
\* parser accepts it; for an empty content type it returns nothing, whatever
\* the parsers would accept.
C17_EarliestAcceptingUnlessEmpty ==
  lookup.called =>
    IF lookup.contentType = <<>> THEN lookup.result = 0
    ELSE lookup.result = EarliestAccepting(lookup.contentType)

C17_Witness ==
  /\ lookup.called
  /\ Len(parsers) = 2
  /\ lookup.result = 1
  /\ detect(parsers[2], lookup.contentType)
  /\ parsers[1] # parsers[2]

\* C18: with the default body-parser configuration, a multipart/form-data
\* request is decoded by the multipart decoder and a text/plain request by
\* the text decoder.
C18_DefaultConfigDecodesByType ==
  parsers = DefaultParsers =>
    \A j \in DOMAIN gets :
      gets[j].decoder # 0 =>
        /\ includes(stream.contentType, <<"multipart/form-data">>)
             => parsers[gets[j].decoder].kind = "multipart"
        /\ includes(stream.contentType, <<"text/", "plain">>)
             => parsers[gets[j].decoder].kind = "text"

\* The bytes of the request's body.
bodyOf(str) == concat(str.arriving)

NotJson == { <<"{">>, <<"{", "}", "1">> }

\* The getBody calls that ran the JSON decoder on the unread request, with a
\* body its limit lets through.
JsonDecodes ==
  { j \in DOMAIN gets :
      /\ gets[j].decoder # 0
      /\ gets[j].outcome # "pending"
      /\ parsers[gets[j].decoder].kind = "json"
      /\ gets[j].err # BadRequestError("Request body too large") }

\* C19: the JSON decoder fails on an empty body with a BadRequestError when
\* strict (which it is unless the options say otherwise) and yields an empty
\* object when not strict; a body that is not JSON fails with a
\* BadRequestError in both modes.
C19_JsonEmptyAndInvalidBodies ==
  /\ JsonParser(NoLimit, "absent").strict
  /\ \A j \in JsonDecodes :
        LET parser == parsers[gets[j].decoder]
        IN  /\ (bodyOf(stream) = <<>> /\ parser.strict)
                 => /\ gets[j].outcome = "threw"
                    /\ gets[j].err = BadRequestError("Empty body not allowed in strict mode")
            /\ (bodyOf(stream) = <<>> /\ ~parser.strict)
                 => /\ gets[j].outcome = "returned"
                    /\ gets[j].value = [kind |-> "object", data |-> <<>>]
            /\ bodyOf(stream) \in NotJson
                 => /\ gets[j].outcome = "threw"
                    /\ gets[j].err = BadRequestError("Invalid JSON format")

C19_Witness ==
  /\ Len(gets) = 2
  /\ bodyOf(stream) = <<>>
  /\ parsers # <<>> /\ parsers[1].kind = "json" /\ ~parsers[1].strict
  /\ gets[1].outcome = "returned" /\ gets[1].decoder = 1
  /\ gets[1].value = [kind |-> "object", data |-> <<>>]

\* C20: whichever decoder reads the body, the decode fails with "Request
\* body too large" when the bytes received exceed the limit the decoder was
\* configured with, and never fails so when they do not.
C20_LimitIsEnforced ==
  \A j \in DOMAIN gets :
    ( /\ gets[j].decoder # 0 /\ gets[j].read /\ gets[j].outcome # "pending"
      /\ parsers[gets[j].decoder].limit.given )
    => LET limit == parsers[gets[j].decoder].limit.n
           tooLarge == ( /\ gets[j].outcome = "threw"
                         /\ gets[j].err = BadRequestError("Request body too large") )
       IN  tooLarge <=> Len(bodyOf(stream)) > limit

\* The same for decoders whose limit is not 0.
C20_NonZeroLimitIsEnforced ==
  \A j \in DOMAIN gets :
    ( /\ gets[j].decoder # 0 /\ gets[j].read /\ gets[j].outcome # "pending"
      /\ parsers[gets[j].decoder].limit.given
      /\ parsers[gets[j].decoder].limit.n # 0 )
    => LET limit == parsers[gets[j].decoder].limit.n
           tooLarge == ( /\ gets[j].outcome = "threw"
                         /\ gets[j].err = BadRequestError("Request body too large") )
       IN  tooLarge <=> Len(bodyOf(stream)) > limit


-----------------------------------------------------------------------------
(* Multipart decode: the limits *)

\* What a part declares: its name attribute, and whether it has a filename.
declaresName(part) ==
  /\ part.headers.contentDisposition.given
  /\ \E i \in DOMAIN part.headers.contentDisposition.attrs :
       /\ part.headers.contentDisposition.attrs[i].key = <<"name">>
       /\ part.headers.contentDisposition.attrs[i].value # <<>>

declaredName(part) ==
  LET attrs == part.headers.contentDisposition.attrs
  IN  attrs[CHOOSE i \in DOMAIN attrs :
              /\ attrs[i].key = <<"name">> /\ attrs[i].value # <<>>
              /\ \A j \in 1..(i - 1) : ~(attrs[j].key = <<"name">> /\ attrs[j].value # <<>>)].value

declaresFile(part) ==
  \E i \in DOMAIN part.headers.contentDisposition.attrs :
    /\ part.headers.contentDisposition.attrs[i].key = <<"file", "name">>
    /\ part.headers.contentDisposition.attrs[i].value # <<>>

\* C21: multipart decode enforces maxFields, maxFieldNameSize, maxFieldSize
\* and maxFileSize: a decode that returns fields and files had no more named
\* parts than maxFields, and none of its named parts had a name longer than
\* maxFieldNameSize, a field value larger than maxFieldSize or a file larger
\* than maxFileSize.
C21_LimitsAreEnforced ==
  decode.pc = "returned" =>
    /\ Cardinality({ i \in DOMAIN decode.parts : declaresName(decode.parts[i]) })
         <= multipart.multipartOptions.maxFields
    /\ \A i \in DOMAIN decode.parts :
         LET part == decode.parts[i]
         IN  declaresName(part) =>
               /\ Len(declaredName(part)) <= multipart.multipartOptions.maxFieldNameSize
               /\ declaresFile(part) =>
                    Len(part.data) <= multipart.multipartOptions.maxFileSize
               /\ ~declaresFile(part) =>
                    Len(part.data) <= multipart.multipartOptions.maxFieldSize

\* The same for bodies whose parts send name before any other attribute; and
\* a decode that threw has no fields and no files.
C21_LimitsAreEnforcedNameFirst ==
  /\ ( /\ decode.pc = "returned"
       /\ \A i \in DOMAIN decode.parts :
            LET attrs == decode.parts[i].headers.contentDisposition.attrs
            IN  attrs # <<>> => attrs[1].key = <<"name">> )
     => C21_LimitsAreEnforced
  /\ decode.pc = "threw" => decode.fields = <<>> /\ decode.files = <<>>

-----------------------------------------------------------------------------
(* Multipart decode: cleanup *)

\* The errors a decode fails with.
DecodeErrors ==
  { BadRequestError(msg) :
      msg \in { "No multipart boundary found", "Request body too large", "Too many fields",
                "Field name too long", "Field value too large", "File too large" } }
  \cup { PlainError }

\* C22: when a multipart decode has failed, the error its caller gets is the
\* error of the failing step, never one of cleanup; and unless rm itself
\* failed, the temporary directory and every file in it, the files this
\* decode staged among them, are gone.
C22_CleanupBeforeTheErrorPropagates ==
  decode.pc = "threw" =>
    /\ decode.err \in DecodeErrors
    /\ decode.cleaned # "no"
    /\ decode.cleaned = "removed" =>
         /\ multipart.tempDir \notin disk.dirs
         /\ \A f \in disk.files : f.path.dir # multipart.tempDir
         /\ \A i \in DOMAIN decode.staged :
              \A f \in disk.files : f.path # decode.staged[i]

\* A decode failed after it had staged a file, and rm removed the directory.
C22_Witness ==
  /\ decode.pc = "threw"
  /\ decode.staged # <<>>
  /\ decode.cleaned = "removed"
  /\ decode.err = BadRequestError("File too large")

-----------------------------------------------------------------------------
(* Multipart decode: one temporary directory per request *)

\* C23: the decode of each request owns its temporary directory: the files
\* staged by a decode that returned are still there whatever becomes of the
\* decodes of the requests that follow it.
C23_CompletedDecodeKeepsItsFiles ==
  \A i \in DOMAIN kept : \E f \in disk.files : f.path = kept[i].path

-----------------------------------------------------------------------------
(* Multipart decode: parts without a name *)

\* C24: a part whose content-disposition has no name attribute is skipped:
\* the fields and files a decode returns come from its parts that declare a
\* name, one from each, and from no other part.
C24_NamelessPartsAreSkipped ==
  decode.pc = "returned" =>
    /\ Len(decode.fields) + Len(decode.files)
         = Cardinality({ i \in DOMAIN decode.parts : declaresName(decode.parts[i]) })
    /\ (\A i \in DOMAIN decode.parts : ~declaresName(decode.parts[i]))
         => decode.fields = <<>> /\ decode.files = <<>>

-----------------------------------------------------------------------------
(* Multipart decode: the staged files *)

\* The parts processParts hands to processFile.
isFilePart(part) ==
  /\ part.headers.contentDisposition.given
  /\ match(part.headers.contentDisposition.attrs, <<"name">>) # 0
  /\ match(part.headers.contentDisposition.attrs, <<"file", "name">>) # 0

\* A file record refers to a path when it carries the path, or a stream that
\* reads the file at that path.
refersTo(file, filepath) ==
  \/ "path" \in DOMAIN file /\ file.path = filepath
  \/ file.stream.from = "file" /\ file.stream.path = filepath

\* C25: for every file part a returned decode accepted, the payload is in a
\* file inside the temporary directory, and the file record has the
\* payload's length as size and refers to that file.
C25_FileRecordRefersToStagedFile ==
  decode.pc = "returned" =>
    \A i \in DOMAIN kept :
      LET payload == SelectSeq(decode.parts, isFilePart)[i].data
      IN  /\ kept[i].path.dir = multipart.tempDir
          /\ \E f \in disk.files : f.path = kept[i].path
          /\ kept[i].file.size = Len(payload)
          /\ refersTo(kept[i].file, kept[i].path)

\* Without the reference: the payload is in the staged file and the record
\* has its size, as long as no two files were staged under one name.
C25_PayloadIsStagedWithItsSize ==
  ( /\ decode.pc = "returned"
    /\ \A i, j \in DOMAIN kept : i # j => kept[i].path # kept[j].path )
  => \A i \in DOMAIN kept :
       LET payload == SelectSeq(decode.parts, isFilePart)[i].data
       IN  /\ kept[i].path.dir = multipart.tempDir
           /\ \E f \in disk.files : f.path = kept[i].path /\ f.data = payload
           /\ kept[i].file.size = Len(payload)

-----------------------------------------------------------------------------
(* Multipart decode: the names of the staged files *)

\* C26: any two file parts a decoder accepts are staged under distinct file
\* names: the paths one decode staged differ from one another, and from the
\* paths the decode that returned before it staged.
C26_StagedNamesAreDistinct ==
  /\ \A i, j \in DOMAIN decode.staged : i # j => decode.staged[i] # decode.staged[j]
  /\ decode.pc = "processing" =>
       \A i \in DOMAIN decode.staged : \A j \in DOMAIN kept :
         decode.staged[i] # kept[j].path

-----------------------------------------------------------------------------
(* Route-specific middleware given to server.get *)

\* C27: server.get(path, middleware, handler) registers the middleware to run
\* before the terminal handler: the function stored and invoked as the
\* route's terminal handler is the handler, never the middleware, and the
\* middleware's call of next does not fail, so that the handler runs after it.
C27_MiddlewareGivenToGetRunsBeforeHandler ==
  /\ \A i \in DOMAIN routes : \A m \in DOMAIN routes[i].methods :
       routes[i].methods[m].handler # authenticate
  /\ \A j \in DOMAIN handlerRuns : handlerRuns[j] # authenticate
  /\ \A j \in DOMAIN raised : raised[j].err # NextIsNotAFunction

-----------------------------------------------------------------------------
(* await next() in a global middleware *)

\* The promise of a next() call made by invocation k has resolved: the
\* invocation is running again, or has returned.
nextHasResolved(k) ==
  /\ invocations[k].calls >= 1
  /\ \/ invocations[k].state = "returned"
     \/ stack # <<>> /\ Top(stack) = k /\ execState = "running"

\* C30: in a global middleware the promise of next() resolves only after the
\* rest of the pipeline, the terminal handler of the matched route included:
\* for a request with a matching route, no route middleware and no response
\* sent yet, the handler has run by the time the promise has resolved.
C30_NextResolvesAfterTheHandler ==
  ( /\ pc = "global"
    /\ ~res.sent
    /\ findRoute(req.method, req.path).found
    /\ AsGiven(findRoute(req.method, req.path).path) \notin DOMAIN routeMiddleware
    /\ \E k \in DOMAIN invocations : nextHasResolved(k) )
  => handlerRuns # <<>>

-----------------------------------------------------------------------------
(* Placeholders *)

\* C28: a :name placeholder matches exactly one non-empty segment. A path
\* that findRoute resolves to a template of literals and placeholders has as
\* many segments as the template, a non-empty segment at every placeholder,
\* and that segment is the value of the parameter; under any template a
\* parameter's value is one non-empty segment of the path.
C28_PlaceholderTakesOneSegment ==
  (found.called /\ found.result.found) =>
    LET T == found.result.path
        p == found.path
    IN  /\ \A n \in DOMAIN found.result.params :
             /\ found.result.params[n] # ""
             /\ \E i \in DOMAIN p : p[i] = found.result.params[n]
        /\ ~HasStar(T) =>
             /\ Len(p) = Len(T)
             /\ \A i \in DOMAIN T :
                  /\ T[i].k = "lit" => p[i] = T[i].v
                  /\ T[i].k = "param" =>
                       /\ p[i] # ""
                       /\ (\A j \in DOMAIN T : T[j] = T[i] => j = i)
                            => found.result.params[T[i].v] = p[i]

\* /a/:x resolves /a/b with x = "b".
C28_Witness ==
  /\ found.called /\ found.result.found
  /\ found.result.path = <<Lit("a"), Param("x")>>
  /\ found.path = <<"a", "b">>
  /\ found.result.params["x"] = "b"

\* /a/:x is the only template, and /a/b/b and /a/ were looked up in vain.
C28_WitnessNoMatch ==
  /\ found.called /\ ~found.result.found
  /\ Len(routes) = 1 /\ routes[1].path = <<Lit("a"), Param("x")>>
  /\ found.method \in DOMAIN routes[1].methods
  /\ found.path \in { <<"a", "b", "b">>, <<"a", "">> }

-----------------------------------------------------------------------------
(* Templates that declare a parameter name twice *)

\* C29: a template that declares the same parameter name twice is refused at
\* registration and leaves the route table as it was: no template in the
\* route table declares a name twice.
C29_DuplicateParameterIsRefused ==
  \A i \in DOMAIN routes :
    \A j, k \in DOMAIN routes[i].path :
      (routes[i].path[j].k = "param" /\ routes[i].path[k] = routes[i].path[j]) => j = k

-----------------------------------------------------------------------------
(* The headers of the response that goes out *)

\* C31: every header recorded through header() before a send operation (the
\* Content-Type of json and send, the Location of redirect, the headers the
\* application set) is on the raw response when it is ended.
C31_RecordedHeadersAreSent ==
  res.ended > 0 =>
    \A n \in DOMAIN res.headers :
      n \in DOMAIN res.written /\ res.written[n] = res.headers[n]

-----------------------------------------------------------------------------
(* The order of the steps of one request *)

\* The steps handleRequest can take from one place to the next.
DispatchOrder ==
  { <<"idle", "global">>,
    <<"global", "routeMw">>, <<"global", "handler">>, <<"global", "errors">>, <<"global", "done">>,
    <<"routeMw", "handler">>, <<"routeMw", "errors">>, <<"routeMw", "done">>,
    <<"handler", "errors">>, <<"handler", "done">>,
    <<"errors", "done">>, <<"done", "idle">> }

C32_WitnessGlobal ==
  /\ handlerRuns # <<>>
  /\ globalMiddleware # <<>>

-----------------------------------------------------------------------------
(* A middleware that short-circuits *)

\* Some middleware of the chain that has settled returned without having
\* called next.
shortCircuited ==
  \E i \in DOMAIN invocations :
    invocations[i].state = "returned" /\ invocations[i].calls = 0

\* C33: when a global or route-scoped middleware has returned without calling
\* next and without a response sent, the dispatcher does not go on to the
\* terminal handler of the route.
C33_ShortCircuitSkipsTheHandler ==
  [][ ( /\ pc \in {"global", "routeMw"}
        /\ execState = "resolved"
        /\ shortCircuited
        /\ ~res.sent )
      => pc' # "handler" ]_vars

-----------------------------------------------------------------------------
(* A response sent by middleware *)

\* C34: the terminal handler is never invoked for a request whose response
\* was already sent by global or route-scoped middleware, and no route is
\* looked up once the global middleware has sent the response.
C34_NoHandlerAfterMiddlewareSent ==
  /\ [](pc = "handler" => ~res.sent)
  /\ [][ Len(handlerRuns') > Len(handlerRuns) => ~res.sent ]_vars
  /\ [][ (found'.called /\ found' # found) => ~res.sent ]_vars

\* A global middleware sent the response of a request that a route serves:
\* handleRequest has returned, no route was looked up, no handler ran.
C34_Witness ==
  /\ pc = "done" /\ res.sent
  /\ globalMiddleware # <<>>
  /\ findRoute(req.method, req.path).found
  /\ ~found.called
  /\ handlerRuns = <<>> /\ handled = <<>>

\* A route-scoped middleware sent the response: no handler ran.
C34_WitnessRoute ==
  /\ pc = "done" /\ res.sent
  /\ found.called /\ found.result.found
  /\ AsGiven(found.result.path) \in DOMAIN routeMiddleware
  /\ handlerRuns = <<>> /\ handled = <<>>

-----------------------------------------------------------------------------
(* The boundary of interleaved decodes *)

\* C35: every decode splits its body with the boundary declared in the
\* content type of its own request, also when the decodes of two requests
\* with different boundaries interleave while their bodies are buffered.
C35_SplitsWithItsOwnBoundary ==
  \A r \in DOMAIN parses :
    /\ parses[r].pc = "scanning" =>
         scan.boundary = extractBoundary(parses[r].contentType).value
    /\ parses[r].pc = "done" =>
         parses[r].used = extractBoundary(parses[r].contentType).value

-----------------------------------------------------------------------------
(* The part scanner terminates *)

\* C40: parseParts terminates on every buffer, well-formed or not: the
\* position stays within the buffer, it is larger at the end of every
\* iteration of the loop than it was at its beginning, and a scan that has
\* begun comes to its end.
C40_ScannerTerminates ==
  /\ [](/\ scan.position >= 0
        /\ (scan.pc \in {"headers", "data"} \/ scan.iterations > 0) =>
             scan.position <= Len(scan.raw)
        /\ (scan.pc = "while" /\ scan.iterations > 0) => scan.position > scan.top)
  /\ [][ scan.pc \in {"while", "headers", "data"} => scan'.position >= scan.position ]_vars
  /\ (scan.pc = "while" ~> scan.pc = "done")

\* A body without its closing marker was scanned to the end of the buffer
\* and gave a part.
C40_Witness ==
  /\ scan.pc = "done"
  /\ indexOf(scan.raw, finalBoundaryMarker(scan.boundary), 0) = -1
  /\ scan.iterations > 0
  /\ scan.parts # <<>>
  /\ scan.position = Len(scan.raw)

\* A well-formed body was scanned in two iterations and gave its part.
C40_WitnessWellFormed ==
  /\ scan.pc = "done"
  /\ scan.raw = wellFormed(<<[headers |-> <<"h">>, data |-> <<"t">>]>>, "X")
  /\ scan.parts = << [headers |-> << <<"h">> >>, data |-> <<"t">>] >>
  /\ scan.iterations = 2

\* The scan ended at the closing marker, before the end of the buffer.
C40_WitnessClosingMarker ==
  /\ scan.pc = "done"
  /\ scan.position < Len(scan.raw)
  /\ startsAt(scan.raw, finalBoundaryMarker(scan.boundary), scan.position)

\* A buffer that does not hold the boundary, and one whose header block has
\* no empty line, were scanned to the end.
C40_WitnessMalformed ==
  /\ scan.pc = "done"
  /\ scan.raw # <<>>
  /\ \/ indexOf(scan.raw, scan.boundary, 0) = -1
     \/ scan.raw = <<"--", "X", CRLF, "h", CRLF, "t", CRLF, "--", "X", "--">>

-----------------------------------------------------------------------------
(* getBody calls that overlap *)

\* C36: when getBody is called again on a request before an earlier call
\* has completed, the decoder is still invoked at most once for the request,
\* and the calls yield the same decoded value.
C36_OverlappingCallsDecodeOnce ==
  /\ Len(flow.calls) <= 1
  /\ \A i, j \in DOMAIN gets :
       (gets[i].overlapped /\ gets[j].overlapped) =>
         /\ ~(gets[i].decoder # 0 /\ gets[j].decoder # 0 /\ i # j)
         /\ gets[i].outcome = gets[j].outcome
         /\ gets[i].value = gets[j].value

\* The overlapping calls never yield two different decoded values.
C36_OverlappingCallsYieldOneValue ==
  \A i, j \in DOMAIN gets :
    (gets[i].overlapped /\ gets[j].overlapped
     /\ gets[i].outcome = "returned" /\ gets[j].outcome = "returned")
    => gets[i].value = gets[j].value

-----------------------------------------------------------------------------
(* The Servers of one process: each is constructed, and the application
   registers decoders; `servers` keeps, for every Server, the decoders its
   setup and the registrations after it have made available to it. *)

\* The decoders an application registers here.
ServersParsers == { JsonParser(Limit(1), "true"), TextParser(Limit(1)) }

\* new Server({bodyParser: config})
ServersConstruct ==
  \E config \in ServerConfigs :
    /\ bodyIdle /\ Len(servers) < MaxServers
    /\ parsers' = configureBodyParsers(config)
    /\ servers' = Append(servers, parsers')
    /\ UNCHANGED <<stream, cache, gets, lookup>>
    /\ othersUnchanged

\* registry.registerParser(parser), after which every Server constructed so
\* far is to find the parser.
ServersRegister ==
  \E parser \in ServersParsers :
    /\ bodyIdle /\ Len(parsers) < MaxParsers
    /\ parsers' = registerParser(parsers, parser)
    /\ servers' = [ i \in DOMAIN servers |-> registerParser(servers[i], parser) ]
    /\ UNCHANGED <<stream, cache, gets, lookup>>
    /\ othersUnchanged

NextServers == ServersConstruct \/ ServersRegister

SpecServers == Init /\ [][NextServers]_vars

-----------------------------------------------------------------------------
(* The parser registry of a Server *)

\* C37: constructing a Server changes nothing in the decoders available to a
\* Server constructed earlier: the registry every Server sees holds, in
\* order, what its own setup and the registrations after it put there.
C37_EarlierServerKeepsItsParsers ==
  \A i \in DOMAIN servers : parsers = servers[i]

-----------------------------------------------------------------------------
(* The default limit *)

\* C38: every built-in decoder for which no limit is configured (constructed
\* without a limit option, enabled with `true`, or with an options object
\* that has no limit) has the default limit of 1 MB in force: no registered
\* decoder is left without a limit value, it has the configured one or the
\* default.
C38_UnconfiguredLimitIsTheDefault ==
  \A i \in DOMAIN parsers : parsers[i].limit.given

-----------------------------------------------------------------------------
(* Route-scoped middleware and the route it is for, registered under one
   path string: server.useRoute(p, m).get(p, h) *)

\* server.useRoute(path, m) and server.get(path, h), with the same string.
ServerUseRouteAndGet ==
  \E path \in ParamPaths :
    LET chain == IF path \in DOMAIN routeMiddleware THEN routeMiddleware[path] ELSE <<>>
    IN  /\ serverIdle /\ storedRoutes < MaxServerRoutes /\ storedMiddleware < MaxMiddleware
        /\ routeMiddleware' = MapSet(routeMiddleware, path, use(chain, Len(chain) + 1))
        /\ Router_addRoute("GET", normalizePath(path), handlerOf("GET"))
        /\ UNCHANGED <<flow, scanVars, multipartVars, bodyVars, responseVars, found, registered,
                       chainVars, requestVars, globalMiddleware, serverRoutes, errorHandlers>>

NextRoutePaths == ServerUseRouteAndGet \/ Dispatch \/ RequestStep \/ RequestDone

SpecRoutePaths == Init /\ [][NextRoutePaths]_vars

FairRoutePaths == SpecRoutePaths /\ WF_vars(RequestStep)

\* C39: route-scoped middleware registered with useRoute(p, m) runs for every
\* request resolved to a route registered with the same path string p, with
\* or without a leading slash: where every route is registered so, a request
\* whose route is resolved goes on to the route's chain, never straight to
\* the handler.
C39_RouteMiddlewareRunsForItsPath ==
  [][ (pc = "global" /\ found'.called /\ found'.result.found)
      => (pc' = "routeMw" /\ execState' = "running") ]_vars

====
